---- MODULE Spec2Model ----
(***************************************************************************)
(* A model of the evaluation core of Amalgam's Interpreter                 *)
(* (src/src/Amalgam/interpreter/Interpreter.cpp): ExecuteNode,             *)
(* InterpretNode, and the call-stack symbol lookups.                       *)
(*                                                                         *)
(* Program nodes are the integers of Nodes, 0 is the null node.  A call    *)
(* stack is a sequence of frames, oldest first; a frame is the set of      *)
(* string ids it binds.  The list nodes that carry the three stacks are    *)
(* named by the strings of StackIds.                                       *)
(***************************************************************************)
EXTENDS Integers, Sequences, FiniteSets, TLC

VARIABLES
    input,            \* the arguments ExecuteNode is called with
    pc,               \* position of the interpreter thread
    callArg,          \* the argument of the pending InterpretNode call
    ctl,              \* the InterpretNode activations whose handler is running
    opStack,          \* *interpreterNodeStackNodes
    callStack,        \* *callStackNodes
    uniqueDepth,      \* callStackUniqueAccessStartingDepth
    callStackMutex,   \* callStackMutex (FALSE is nullptr)
    stackIds,         \* the list nodes ExecuteNode works on
    keptRefs,         \* the manager's kept-reference count of each list node
    freed,            \* the list nodes handed to FreeNode
    usedNodes,        \* the manager's number of used nodes
    perf,             \* *performanceConstraints
    lastCall,         \* record of the InterpretNode call that returned last
    gcLog,            \* record of the last CollectGarbage call of InterpretNode
    refsAtEntry,      \* keptRefs when ExecuteNode was entered
    everExhausted,    \* which resource checks have reported exhaustion so far
    lastLookup,       \* record of the last symbol lookup on the present frames
    sharedFrames,     \* the frames of the call stack a parent hands to its workers
    callStackLock,    \* the state of the read-write mutex the parent supplies
    workers,          \* the worker interpreters of one concurrent opcode
    childPerf,        \* the block perf_constraints a handler populates
    numActiveThreads, \* Concurrency::threadPool.GetNumActiveThreads()
    entities,         \* entity_to_constrain_from and the containment it is in
    requested,        \* childPerf when PopulatePerformanceCounters was entered
    firstCheck,       \* the first resource check of the interpreter given childPerf
    params,           \* the evaluated parameters of the opcode, as doubles
    paramCall,        \* the call of PopulatePerformanceConstraintsFromParams
    paramReads,       \* the parameter positions that call has evaluated
    concArgs,         \* the arguments of InterpretEvaluableNodesConcurrently
    enqueueLock,      \* whether the pool's batch-enqueue lock is held
    tasks,            \* the tasks of the concurrency manager, as enqueued
    interpretedNodes, \* interpreted_nodes
    concReturn,       \* what InterpretEvaluableNodesConcurrently returned
    concLog,          \* record of the enqueues and of the tasks' completion
    rwInput,          \* the graph RewriteByFunction is called on
    rwArg,            \* tree and new_parent_node of the pending call
    rwFrames,         \* the RewriteByFunction activations working on children
    rwRet,            \* the reference the last RewriteByFunction call returned
    originalToNew,    \* original_node_to_new_node
    newToParent,      \* new_node_to_new_parent_node
    newChildren,      \* the child slots of the nodes of the new graph
    needCycleCheck,   \* the need_cycle_check flag of the nodes of the new graph
    constructionStack,\* the construction stack
    rwNulls,          \* the ENT_NULL nodes allocated for null trees
    rwLog,            \* record of the last walk that set need_cycle_check
    rwTrace,          \* the originals in the order they were copied, and in
                      \* the order the function was applied to their copies
    version,          \* the version string of a loaded entity's metadata
    engine,           \* AMALGAM_VERSION_MAJOR, _MINOR, _PATCH and _SUFFIX of the build
    validation,       \* what ValidateVersionAgainstAmalgam returned
    files,            \* the files LoadEntityFromResourcePath reads, and its arguments
    loadArg,          \* the file of the pending LoadEntityFromResourcePath call
    loadFrames,       \* the LoadEntityFromResourcePath activations loading children
    liveEntities,     \* the entities that are allocated and not deleted
    containedOf,      \* the contained entities of each entity, as added
    destroyed,        \* the entities that were deleted
    loadStatus,       \* status, the caller's LoadEntityStatus
    loadRet,          \* what the last LoadEntityFromResourcePath call returned
    randomState,      \* the random state each entity was last set to
    createArg,        \* the entity CreateEntity is called with and its containers
    defaultEntityExtension, \* AssetManager::defaultEntityExtension
    createCur,        \* cur of CreateEntity, as a position in the containers
    traversalPath,    \* traversal_path of CreateEntity
    stored,           \* the calls of StoreEntityToResourcePath CreateEntity made
    destArg,          \* the entities and the id path of a destination lookup
    destTraversal,    \* what the traversal of the id path returned
    destRet,          \* what InterpretNodeIntoDestinationEntity returned
    helperCall,       \* the helper that is called and its argument n
    pool,             \* the reference count of each ID of string_intern_pool
    heap,             \* the nodes the evaluableNodeManager has allocated
    intermediate,     \* the result of interpreting n
    helperRet,        \* what the helper returned
    helperLog,        \* pool and heap when the helper was entered, and the
                      \* node n was interpreted into
    cvArgs,           \* args of ConvertArgsToCallStack, and the nodes at the call
    cvNodes,          \* the nodes of the manager enm: type, flag and children
    cvRet             \* what ConvertArgsToCallStack returned

\* the state of the interpreter that evaluates the program
interpreterVars ==
    <<input, pc, callArg, ctl, opStack, callStack, uniqueDepth,
      callStackMutex, stackIds, keptRefs, freed, usedNodes, perf,
      lastCall, gcLog, refsAtEntry, everExhausted, lastLookup>>

\* the state of the workers of a concurrent opcode
workerVars == <<sharedFrames, callStackLock, workers>>

\* the state of a handler that derives a performance-constraints block
constraintVars ==
    <<childPerf, numActiveThreads, entities, requested, firstCheck, params,
      paramCall, paramReads>>

\* the state of the handlers modelled apart from the evaluation of a program
\* the state of a handler that evaluates its child nodes concurrently
concurrentVars ==
    <<concArgs, enqueueLock, tasks, interpretedNodes, concReturn, concLog>>

\* the state of a rewrite of a graph by a function
rewriteVars ==
    <<rwInput, rwArg, rwFrames, rwRet, originalToNew, newToParent,
      newChildren, needCycleCheck, constructionStack, rwNulls, rwLog,
      rwTrace>>

\* the state of a load of an entity and its contained entities
loadVars ==
    <<files, loadArg, loadFrames, liveEntities, containedOf, destroyed,
      loadStatus, loadRet, randomState>>

\* the state of a CreateEntity call
createVars ==
    <<createArg, defaultEntityExtension, createCur, traversalPath, stored>>

\* the state of the asset manager
assetVars == <<version, engine, validation, loadVars, createVars>>

\* the state of a destination lookup
destinationVars == <<destArg, destTraversal, destRet>>

\* the state of a helper that interprets a node into a value
immediateVars == <<helperCall, pool, heap, intermediate, helperRet, helperLog>>

helperVars == <<destinationVars, immediateVars>>

\* the state of a conversion of arguments into a call stack
convertVars == <<cvArgs, cvNodes, cvRet>>

featureVars ==
    <<constraintVars, concurrentVars, rewriteVars, assetVars, helperVars,
      convertVars>>

\* what an action of one of these handlers leaves alone
otherThanConstraint ==
    <<workerVars, concurrentVars, rewriteVars, assetVars, helperVars,
      convertVars>>

otherThanConcurrent ==
    <<workerVars, constraintVars, rewriteVars, assetVars, helperVars,
      convertVars>>

otherThanRewrite ==
    <<workerVars, constraintVars, concurrentVars, assetVars, helperVars,
      convertVars>>

otherThanAsset ==
    <<workerVars, constraintVars, concurrentVars, rewriteVars, helperVars,
      convertVars>>

otherThanHelper ==
    <<workerVars, constraintVars, concurrentVars, rewriteVars, assetVars,
      convertVars>>

otherThanConvert ==
    <<workerVars, constraintVars, concurrentVars, rewriteVars, assetVars,
      helperVars>>

\* the state of the interpreter other than its position
interpreterFrame ==
    <<input, callArg, ctl, opStack, callStack, uniqueDepth, callStackMutex,
      stackIds, keptRefs, freed, usedNodes, perf, lastCall, gcLog,
      refsAtEntry, everExhausted, lastLookup>>

vars == <<interpreterVars, workerVars, featureVars>>

----------------------------------------------------------------------------
(* Bounds of the model *)

\* largest budget a performance-constraints block is given
MaxBudget == 2
\* cap of the manager's used-node counter
MaxUsedNodes == 2
\* cap of the number of call-stack frames
MaxFrames == 3
\* cap of the number of frames a worker pushes on the stack it was handed
MaxOwnFrames == 1
\* largest number of active threads of the pool
MaxThreads == 2
\* largest number of parameters an opcode is given
MaxParams == 7

(* Program values *)

\* the null node / the null reference
NullNode == 0

Nodes == {1, 2, 3}

\* the interned string ids that name symbols
Sids == {1, 2}

StackIds == {"cs_arg", "ins_arg", "con_arg", "cs_new", "ins_new", "con_new", "none"}

\* the programs handed to ExecuteNode: the ordered children of each node
Programs ==
    { [n \in Nodes |-> IF n = 1 THEN <<2, 3>> ELSE IF n = 2 THEN <<3>> ELSE <<>>],
      [n \in Nodes |-> IF n = 1 THEN <<NullNode, 2>> ELSE <<>>],
      [n \in Nodes |-> <<>>] }

\* no block: performanceConstraints == nullptr
NoPerf ==
    [present |-> FALSE, maxNumExecutionSteps |-> 0, curExecutionStep |-> 0,
     maxNumAllocatedNodes |-> 0, curNumAllocatedNodesAllocatedToEntities |-> 0,
     maxOpcodeExecutionDepth |-> 0,
     constrainMaxContainedEntities |-> FALSE, maxContainedEntities |-> 0,
     constrainMaxContainedEntityDepth |-> FALSE, maxContainedEntityDepth |-> 0,
     maxEntityIdLength |-> 0, entityToConstrainFrom |-> FALSE]

\* a block that constrains nothing
UnconstrainedPerf == [NoPerf EXCEPT !.present = TRUE]

PerfBlocks ==
    {NoPerf} \cup
    {[UnconstrainedPerf EXCEPT !.maxNumExecutionSteps = s,
                               !.maxNumAllocatedNodes = n,
                               !.maxOpcodeExecutionDepth = d] :
        s \in 0..MaxBudget, n \in {0, 1}, d \in 0..MaxBudget}

NoStack == [given |-> FALSE, frames |-> <<>>]

NoList == [given |-> FALSE, nodes |-> <<>>]

NoCall ==
    [path |-> "none", node |-> NullNode, entry |-> <<>>, exit |-> <<>>,
     result |-> NullNode, dispatched |-> FALSE, exhausted |-> FALSE,
     prior |-> {}]

NoLookup ==
    [op |-> "none", sid |-> 0, include_unique_access |-> FALSE,
     include_shared_access |-> FALSE, depth |-> 0, before |-> <<>>,
     after |-> <<>>, found |-> FALSE, created |-> FALSE, index |-> 0,
     outside |-> FALSE]

\* the worker threads of one concurrent opcode
Workers == {1, 2}

NoAccess == [active |-> FALSE, frame |-> 0, write |-> FALSE]

IdleWorker ==
    [pc |-> "idle", kind |-> "none", sid |-> 0, idx |-> 0, lowest |-> 0,
     access |-> NoAccess, own |-> <<>>, depth |-> 0]

Unlocked == [writer |-> 0, readers |-> {}]

NoGC == [called |-> FALSE, stackSeen |-> <<>>, underEval |-> {}, rooted |-> FALSE]

----------------------------------------------------------------------------
(* The node manager's reference bookkeeping *)

RECURSIVE KeepNodeReferences(_, _)
KeepNodeReferences(refs, ids) ==
    IF ids = <<>> THEN refs
    ELSE KeepNodeReferences([refs EXCEPT ![Head(ids)] = @ + 1], Tail(ids))

RECURSIVE FreeNodeReferences(_, _)
FreeNodeReferences(refs, ids) ==
    IF ids = <<>> THEN refs
    ELSE FreeNodeReferences(
            [refs EXCEPT ![Head(ids)] = IF @ > 0 THEN @ - 1 ELSE 0], Tail(ids))

----------------------------------------------------------------------------
(* Performance constraints *)

ConstrainedExecutionSteps(p) == p.maxNumExecutionSteps # 0

ConstrainedAllocatedNodes(p) == p.maxNumAllocatedNodes # 0

ConstrainedOpcodeExecutionDepth(p) == p.maxOpcodeExecutionDepth # 0

\* AreExecutionResourcesExhausted(true): the counters after the check
IncrementPerformanceCounters(p) ==
    IF p.present /\ ConstrainedExecutionSteps(p)
    THEN [p EXCEPT !.curExecutionStep = @ + 1]
    ELSE p

\* the budgets of block p that a check finds exceeded, after the increment
ExceededBudgets(p, used, depth) ==
    IF ~p.present THEN {}
    ELSE  (IF ConstrainedExecutionSteps(p)
              /\ p.curExecutionStep > p.maxNumExecutionSteps
           THEN {"steps"} ELSE {})
     \cup (IF ConstrainedAllocatedNodes(p)
              /\ p.curNumAllocatedNodesAllocatedToEntities + used
                    > p.maxNumAllocatedNodes
           THEN {"nodes"} ELSE {})
     \cup (IF ConstrainedOpcodeExecutionDepth(p)
              /\ depth > p.maxOpcodeExecutionDepth
           THEN {"depth"} ELSE {})

AreExecutionResourcesExhausted(p, used, depth) ==
    ExceededBudgets(p, used, depth) # {}

----------------------------------------------------------------------------
(* Doubles.  An evaluated parameter is NaN or a number held in tenths, so   *)
(* that 0.5 and 2.5 are values and the cast to a count truncates.           *)

NaN == [nan |-> TRUE, tenths |-> 0]

Double(tenths) == [nan |-> FALSE, tenths |-> tenths]

\* the values a parameter evaluates to: NaN, -1.0, 0.0, 0.5, 1.0, 2.5
Doubles == {NaN, Double(0 - 10), Double(0), Double(5), Double(10), Double(25)}

\* a comparison that NaN passes: !(value < least)
AtLeast_NotBelow(value, least) == value.nan \/ value.tenths >= least * 10

\* value >= least, which is false of NaN
AtLeast(value, least) == ~value.nan /\ value.tenths >= least * 10

\* static_cast<ExecutionCycleCount>(value) of a value that is not negative
CastToCount(value) == value.tenths \div 10

Min(a, b) == IF a <= b THEN a ELSE b

----------------------------------------------------------------------------
(* PopulatePerformanceConstraintsFromParams *)

\* whether params holds the parameter at this position (counted from 0)
HasParam(ps, position) == Len(ps) > position

\* the parameter positions the function evaluates, beyond six budgets too
ParamPositions_All(ps, offset, include_entity_constraints) ==
    {pos \in 0..(Len(ps) - 1) : pos >= offset}

\* the parameter positions the function evaluates
ParamPositions(ps, offset, include_entity_constraints) ==
    {pos \in offset..(offset + (IF include_entity_constraints THEN 5 ELSE 2)) :
        HasParam(ps, pos)}

\* a budget for which values below 1 mean no limit
LimitFromParam(ps, position) ==
    IF HasParam(ps, position) /\ AtLeast(ps[position + 1], 1)
    THEN CastToCount(ps[position + 1])
    ELSE 0

\* an entity budget for which values below 1 mean no limit
ConstrainedFromParam_AtLeastOne(ps, position) ==
    HasParam(ps, position) /\ AtLeast(ps[position + 1], 1)

\* whether an entity budget, for which 0 is a limit, is constrained
ConstrainedFromParam(ps, position) ==
    HasParam(ps, position) /\ AtLeast(ps[position + 1], 0)

EntityLimitFromParam(ps, position) ==
    IF ConstrainedFromParam(ps, position)
    THEN CastToCount(ps[position + 1])
    ELSE 0

\* the block the function leaves in perf_constraints
ConstraintsFromParams(ps, offset, include_entity_constraints) ==
    [present |-> TRUE,
     curExecutionStep |-> 0,
     maxNumExecutionSteps |-> LimitFromParam(ps, offset + 0),
     curNumAllocatedNodesAllocatedToEntities |-> 0,
     maxNumAllocatedNodes |-> LimitFromParam(ps, offset + 1),
     maxOpcodeExecutionDepth |-> LimitFromParam(ps, offset + 2),
     entityToConstrainFrom |-> FALSE,
     constrainMaxContainedEntities |->
        include_entity_constraints /\ ConstrainedFromParam(ps, offset + 3),
     maxContainedEntities |->
        IF include_entity_constraints
        THEN EntityLimitFromParam(ps, offset + 3) ELSE 0,
     constrainMaxContainedEntityDepth |->
        include_entity_constraints /\ ConstrainedFromParam(ps, offset + 4),
     maxContainedEntityDepth |->
        IF include_entity_constraints
        THEN EntityLimitFromParam(ps, offset + 4) ELSE 0,
     maxEntityIdLength |->
        IF include_entity_constraints
        THEN LimitFromParam(ps, offset + 5) ELSE 0]

\* the value the function returns
AnyConstraints(parent, block) ==
    \/ parent.present
    \/ block.maxNumExecutionSteps # 0
    \/ block.maxNumAllocatedNodes # 0
    \/ block.maxOpcodeExecutionDepth # 0
    \/ block.constrainMaxContainedEntities
    \/ block.constrainMaxContainedEntityDepth
    \/ block.maxEntityIdLength # 0

NoParamCall ==
    [state |-> "none", perf_constraint_param_offset |-> 0,
     include_entity_constraints |-> FALSE, any_constraints |-> FALSE]

----------------------------------------------------------------------------
(* PopulatePerformanceCounters *)

\* what a block has left of each budget
GetRemainingNumExecutionSteps(p) ==
    IF p.maxNumExecutionSteps > p.curExecutionStep
    THEN p.maxNumExecutionSteps - p.curExecutionStep ELSE 0

GetRemainingNumAllocatedNodes(p, used) ==
    IF p.maxNumAllocatedNodes > p.curNumAllocatedNodesAllocatedToEntities + used
    THEN p.maxNumAllocatedNodes
            - (p.curNumAllocatedNodesAllocatedToEntities + used)
    ELSE 0

GetRemainingOpcodeExecutionDepth(p, depth) ==
    IF p.maxOpcodeExecutionDepth > depth
    THEN p.maxOpcodeExecutionDepth - depth ELSE 0

\* a child that keeps what it asked for, whatever the parent has left
InheritBudget_Requested(own, remaining) == own

\* the maximum a child gets of a budget of which the parent has
\* remaining > 0 left: the lesser of the two if the child has a maximum of
\* its own, else what remains
InheritBudget(own, remaining) ==
    IF own # 0 THEN Min(own, remaining) ELSE remaining

\* the maximum that is to keep a child from running
ExhaustedBudget == 1

HandleExecutionSteps(parent, c) ==
    IF parent.present /\ ConstrainedExecutionSteps(parent)
    THEN LET remaining_steps == GetRemainingNumExecutionSteps(parent)
         IN  IF remaining_steps > 0
             THEN [c EXCEPT !.maxNumExecutionSteps =
                                InheritBudget(@, remaining_steps)]
             ELSE [c EXCEPT !.maxNumExecutionSteps = ExhaustedBudget,
                            !.curExecutionStep = 1]
    ELSE c

HandleAllocatedNodes(parent, c, used) ==
    IF parent.present /\ ConstrainedAllocatedNodes(parent)
    THEN LET remaining_allocs == GetRemainingNumAllocatedNodes(parent, used)
         IN  IF remaining_allocs > 0
             THEN [c EXCEPT !.maxNumAllocatedNodes =
                                InheritBudget(@, remaining_allocs)]
             ELSE [c EXCEPT !.maxNumAllocatedNodes = ExhaustedBudget]
    ELSE c

\* an offset that takes no account of the other threads
ScaleAndOffsetAllocatedNodes_OneThread(c, used, threads) ==
    IF ConstrainedAllocatedNodes(c)
    THEN [c EXCEPT !.maxNumAllocatedNodes = @ + used]
    ELSE c

\* the share of every active thread, above the nodes now in use
ScaleAndOffsetAllocatedNodes(c, used, threads) ==
    IF ConstrainedAllocatedNodes(c)
    THEN [c EXCEPT !.maxNumAllocatedNodes = @ * threads + used]
    ELSE c

HandleOpcodeExecutionDepth(parent, c, depth) ==
    IF parent.present /\ ConstrainedOpcodeExecutionDepth(parent)
    THEN LET remaining_depth == GetRemainingOpcodeExecutionDepth(parent, depth)
         IN  IF remaining_depth > 0
             THEN [c EXCEPT !.maxOpcodeExecutionDepth =
                                InheritBudget(@, remaining_depth)]
             ELSE [c EXCEPT !.maxOpcodeExecutionDepth = ExhaustedBudget]
    ELSE c

\* no entity to constrain from
NoEntity ==
    [given |-> FALSE, contained |-> FALSE, container_total_entities |-> 0,
     contained_total_entities |-> 0, cur_depth |-> 0]

HandleContainedEntities(parent, c, env) ==
    IF parent.present /\ parent.constrainMaxContainedEntities
       /\ parent.entityToConstrainFrom
    THEN LET max_entities ==
                IF ~env.contained THEN parent.maxContainedEntities
                ELSE IF env.container_total_entities >= parent.maxContainedEntities
                     THEN 0
                     ELSE parent.maxContainedEntities
                            - (env.container_total_entities
                                - env.contained_total_entities)
         IN  [c EXCEPT !.constrainMaxContainedEntities = TRUE,
                       !.maxContainedEntities = Min(@, max_entities)]
    ELSE c

HandleContainedEntityDepth(parent, c, env) ==
    IF parent.present /\ parent.constrainMaxContainedEntityDepth
       /\ parent.entityToConstrainFrom
    THEN LET max_depth == parent.maxContainedEntityDepth
             cur_depth == IF env.contained THEN env.cur_depth ELSE 0
         IN  [c EXCEPT !.constrainMaxContainedEntityDepth = TRUE,
                       !.maxContainedEntityDepth =
                            IF cur_depth >= max_depth THEN 0
                            ELSE Min(@, max_depth - cur_depth)]
    ELSE c

\* the parent's limit stored where the limit of id lengths is kept
HandleEntityIdLength_IntoIdLength(parent, c) ==
    IF parent.present /\ parent.maxEntityIdLength > 0
    THEN IF c.maxEntityIdLength > 0
         THEN [c EXCEPT !.maxEntityIdLength = Min(@, parent.maxEntityIdLength)]
         ELSE [c EXCEPT !.maxEntityIdLength = parent.maxEntityIdLength]
    ELSE c

\* the parent's limit of the length of entity ids: the lesser limit if the
\* child has one, else the parent's limit is stored in maxNumAllocatedNodes
HandleEntityIdLength(parent, c) ==
    IF parent.present /\ parent.maxEntityIdLength > 0
    THEN IF c.maxEntityIdLength > 0
         THEN [c EXCEPT !.maxEntityIdLength = Min(@, parent.maxEntityIdLength)]
         ELSE [c EXCEPT !.maxNumAllocatedNodes = parent.maxEntityIdLength]
    ELSE c

\* the three budgets of evaluation, in the order of the code
PopulateEvaluationBudgets(parent, c, used, depth, threads) ==
    HandleOpcodeExecutionDepth(parent,
        ScaleAndOffsetAllocatedNodes(
            HandleAllocatedNodes(parent, HandleExecutionSteps(parent, c), used),
            used, threads),
        depth)

\* the block PopulatePerformanceCounters leaves in perf_constraints
PopulatePerformanceCounters(parent, c, used, depth, threads, env) ==
    LET budgets == PopulateEvaluationBudgets(parent, c, used, depth, threads)
    IN  IF ~env.given THEN budgets
        ELSE HandleEntityIdLength(parent,
                HandleContainedEntityDepth(parent,
                    HandleContainedEntities(parent,
                        [budgets EXCEPT !.entityToConstrainFrom = TRUE], env),
                    env))

NoCheck == [made |-> FALSE, depth |-> 0, used |-> 0, exceeded |-> {}]

\* no handler derives a block
ConstraintsUnused ==
    /\ childPerf = NoPerf
    /\ numActiveThreads = 1
    /\ entities = NoEntity
    /\ requested = NoPerf
    /\ firstCheck = NoCheck
    /\ params = <<>>
    /\ paramCall = NoParamCall
    /\ paramReads = {}

NoConcArgs ==
    [concurrency |-> FALSE, nodes |-> <<>>, immediate_results |-> FALSE,
     threads_available |-> FALSE, interpreted_at_entry |-> <<>>]

NoConcLog == [enqueued_unlocked |-> FALSE, completed |-> <<>>, resized |-> FALSE]

\* no handler evaluates child nodes concurrently
ConcurrencyUnused ==
    /\ concArgs = NoConcArgs
    /\ enqueueLock = FALSE
    /\ tasks = <<>>
    /\ interpretedNodes = <<>>
    /\ concReturn = "none"
    /\ concLog = NoConcLog

NoRewriteInput ==
    [root |-> 0, children |-> <<>>, kind |-> <<>>, flags |-> <<>>]

NoReference == [node |-> 0, unique |-> FALSE]

NoWalk == [op |-> "none", node |-> 0, before |-> <<>>, after |-> <<>>,
           parents |-> <<>>]

NoTrace == [copied |-> <<>>, applied |-> <<>>]

\* no handler rewrites a graph
RewriteUnused ==
    /\ rwInput = NoRewriteInput
    /\ rwArg = [tree |-> 0, new_parent_node |-> 0]
    /\ rwFrames = <<>>
    /\ rwRet = NoReference
    /\ originalToNew = <<>>
    /\ newToParent = <<>>
    /\ newChildren = <<>>
    /\ needCycleCheck = <<>>
    /\ constructionStack = <<>>
    /\ rwNulls = 0
    /\ rwLog = NoWalk
    /\ rwTrace = NoTrace

NoVersion == <<>>

NoEngine == [major |-> 0, minor |-> 0, patch |-> 0, suffix |-> <<>>]

NoValidation == [done |-> FALSE, success |-> FALSE, error_message |-> ""]

NoFiles == [children |-> <<>>, loads |-> <<>>, metadata |-> <<>>, version |-> <<>>, file_type |-> "", load_contained_entities |-> FALSE]

\* a LoadEntityStatus as it is constructed
StatusLoaded == [loaded |-> TRUE, message |-> "", version |-> <<>>]

\* no entity is loaded
LoadUnused ==
    /\ files = NoFiles
    /\ loadArg = 0
    /\ loadFrames = <<>>
    /\ liveEntities = {}
    /\ containedOf = <<>>
    /\ destroyed = {}
    /\ loadStatus = StatusLoaded
    /\ loadRet = 0
    /\ randomState = <<>>

NoCreateArg == [id |-> <<>>, containers |-> <<>>, other_persistent |-> FALSE]

\* no entity is created
CreateUnused ==
    /\ createArg = NoCreateArg
    /\ defaultEntityExtension = <<>>
    /\ createCur = 0
    /\ traversalPath = <<>>
    /\ stored = <<>>

\* the reserved ID of a value that is not a string
NOT_A_STRING_ID == 0

NoDestArg == [container |-> <<>>, id |-> <<>>, cur |-> 0, path |-> <<>>]

NoTraversal == [entity |-> 0, container |-> 0, new_entity_id |-> ""]

NoDestination == [reference |-> 0, id |-> ""]

\* no destination is looked up
DestinationUnused ==
    /\ destArg = NoDestArg
    /\ destTraversal = NoTraversal
    /\ destRet = NoDestination

NoHelperCall == [fn |-> "", n |-> 0]

NoIntermediate == [immediate |-> FALSE, node |-> 0, unique |-> FALSE, type |-> "", sid |-> NOT_A_STRING_ID]

NoHelperRet == [node |-> 0, unique |-> FALSE, sid |-> NOT_A_STRING_ID]

\* no node
NoRecord == [kind |-> "", sid |-> NOT_A_STRING_ID, metadata |-> FALSE, idempotent |-> FALSE]

NoHelperLog == [pool |-> <<>>, heap |-> <<>>, interpreted |-> FALSE, result |-> NoRecord]

\* no helper is called
ImmediatesUnused ==
    /\ helperCall = NoHelperCall
    /\ pool = <<>>
    /\ heap = <<>>
    /\ intermediate = NoIntermediate
    /\ helperRet = NoHelperRet
    /\ helperLog = NoHelperLog

NoConvertArgs == [node |-> 0, unique |-> FALSE, nodes |-> <<>>]

\* no arguments are converted
ConvertUnused ==
    /\ cvArgs = NoConvertArgs
    /\ cvNodes = <<>>
    /\ cvRet = NoReference

\* the helpers of the interpreter are not called
HelpersUnused ==
    /\ DestinationUnused
    /\ ImmediatesUnused

\* the asset manager is not called
AssetsUnused ==
    /\ version = NoVersion
    /\ engine = NoEngine
    /\ validation = NoValidation
    /\ LoadUnused
    /\ CreateUnused

\* the other handlers' variables, where no such handler runs
FeaturesUnused ==
    /\ ConstraintsUnused
    /\ ConcurrencyUnused
    /\ RewriteUnused
    /\ AssetsUnused
    /\ HelpersUnused
    /\ ConvertUnused

----------------------------------------------------------------------------
(* ExecuteNode *)

\* a depth that ignores the call stack handed in
UniqueAccessStartingDepth_Zero(call_stack) == 0

\* callStackUniqueAccessStartingDepth as ExecuteNode sets it
UniqueAccessStartingDepth(call_stack) ==
    IF ~call_stack.given THEN 0 ELSE Len(call_stack.frames)

\* the call stack ExecuteNode uses: the given one, or a new list of one
\* empty associative frame
UseOrCreateCallStack(call_stack) ==
    IF ~call_stack.given THEN <<{}>> ELSE call_stack.frames

\* the list nodes ExecuteNode works on
StackListNodes(in) ==
    [cs  |-> IF in.call_stack.given THEN "cs_arg" ELSE "cs_new",
     ins |-> IF in.interpreter_node_stack.given THEN "ins_arg" ELSE "ins_new",
     con |-> IF in.construction_stack.given THEN "con_arg" ELSE "con_new"]

\* the nodes ExecuteNode keeps while InterpretNode runs
ReferencesKeptByExecuteNode(ids) == <<ids.cs, ids.ins, ids.con>>

\* the nodes ExecuteNode releases after InterpretNode has returned
ReferencesFreed_OnlyEphemeral(ids) == <<ids.ins, ids.con>>

ReferencesFreedByExecuteNode(ids) == <<ids.cs, ids.ins, ids.con>>

\* the opcode-stack and construction-stack nodes ExecuteNode allocated
NodesFreed_OnlyAllocated(ids) == {ids.ins, ids.con} \cap {"ins_new", "con_new"}

\* the nodes ExecuteNode hands to FreeNode
NodesFreedByExecuteNode(ids) == {ids.ins, ids.con}

ExecuteNode ==
    /\ pc = "start"
    /\ uniqueDepth' = UniqueAccessStartingDepth(input.call_stack)
    /\ callStackMutex' = input.call_stack_write_mutex
    /\ callStack' = UseOrCreateCallStack(input.call_stack)
    /\ opStack' = input.interpreter_node_stack.nodes
    /\ stackIds' = StackListNodes(input)
    /\ refsAtEntry' = keptRefs
    /\ keptRefs' = KeepNodeReferences(keptRefs,
                        ReferencesKeptByExecuteNode(StackListNodes(input)))
    /\ callArg' = input.en
    /\ pc' = "call"
    /\ UNCHANGED <<input, ctl, freed, usedNodes, perf, lastCall, gcLog,
                   everExhausted, lastLookup>>
    /\ UNCHANGED <<workerVars, featureVars>>

ExecuteNodeReturn ==
    /\ pc = "exec_ret"
    /\ keptRefs' = FreeNodeReferences(keptRefs,
                        ReferencesFreedByExecuteNode(stackIds))
    /\ freed' = freed \cup NodesFreedByExecuteNode(stackIds)
    /\ pc' = "done"
    /\ UNCHANGED <<input, callArg, ctl, opStack, callStack, uniqueDepth,
                   callStackMutex, stackIds, usedNodes, perf, lastCall, gcLog,
                   refsAtEntry, everExhausted, lastLookup>>
    /\ UNCHANGED <<workerVars, featureVars>>

----------------------------------------------------------------------------
(* InterpretNode *)

\* where control goes when an InterpretNode call returns
ReturnTo(frames) == IF frames = <<>> THEN "exec_ret" ELSE "handler"

\* the opcode stack CollectGarbage finds: the node was pushed before
StackAtCollection_BeforePush(before, pushed) == before

StackAtCollection(before, pushed) == pushed

\* the opcode stack InterpretNode leaves when resources are exhausted
StackOnExhaustion_NoPop(pushed) == pushed

StackOnExhaustion(pushed) == SubSeq(pushed, 1, Len(pushed) - 1)

\* whether InterpretNode goes on to the opcode handler
DispatchesHandler_Always(exhausted) == TRUE

DispatchesHandler(exhausted) == ~exhausted

\* the opcode stack after the handler: "finished with opcode"
StackAfterHandler_NoPop(stack) == stack

StackAfterHandler(stack) == SubSeq(stack, 1, Len(stack) - 1)

EnclosingNodes == {ctl[i].node : i \in 1..Len(ctl)}

InterpretNode ==
    /\ pc = "call"
    /\ IF callArg = NullNode
       THEN /\ lastCall' = [path |-> "null", node |-> callArg,
                            entry |-> opStack, exit |-> opStack,
                            result |-> NullNode, dispatched |-> FALSE,
                            exhausted |-> FALSE, prior |-> everExhausted]
            /\ pc' = ReturnTo(ctl)
            /\ UNCHANGED <<ctl, opStack, usedNodes, perf, gcLog, everExhausted>>
       ELSE \E reclaimed \in 0..usedNodes :
            LET pushed == Append(opStack, callArg)
                used == usedNodes - reclaimed
                counted == IncrementPerformanceCounters(perf)
                exceeded == ExceededBudgets(counted, used, Len(pushed))
                exhausted == AreExecutionResourcesExhausted(counted, used, Len(pushed))
            IN  /\ gcLog' = [called |-> TRUE,
                             stackSeen |-> StackAtCollection(opStack, pushed),
                             underEval |-> EnclosingNodes \cup {callArg},
                             rooted |-> keptRefs[stackIds.ins] > 0
                                        /\ stackIds.ins \notin freed]
                /\ usedNodes' = used
                /\ perf' = counted
                /\ everExhausted' = everExhausted \cup exceeded
                /\ IF DispatchesHandler(exhausted)
                   THEN /\ opStack' = pushed
                        /\ ctl' = Append(ctl, [node |-> callArg, next |-> 1,
                                               entry |-> opStack,
                                               exhausted |-> exhausted,
                                               prior |-> everExhausted])
                        /\ pc' = "handler"
                        /\ UNCHANGED lastCall
                   ELSE /\ opStack' = StackOnExhaustion(pushed)
                        /\ lastCall' = [path |-> "exhausted", node |-> callArg,
                                        entry |-> opStack,
                                        exit |-> StackOnExhaustion(pushed),
                                        result |-> NullNode,
                                        dispatched |-> FALSE,
                                        exhausted |-> exhausted,
                                        prior |-> everExhausted]
                        /\ pc' = ReturnTo(ctl)
                        /\ UNCHANGED ctl
    /\ UNCHANGED <<input, callArg, callStack, uniqueDepth, callStackMutex,
                   stackIds, keptRefs, freed, refsAtEntry, lastLookup>>
    /\ UNCHANGED <<workerVars, featureVars>>

\* the handler returns retval: InterpretNode pops the node and returns it
InterpretNodeReturn ==
    /\ pc = "handler"
    /\ \E retval \in {NullNode, ctl[Len(ctl)].node} :
        LET top == ctl[Len(ctl)]
            rest == SubSeq(ctl, 1, Len(ctl) - 1)
        IN  /\ opStack' = StackAfterHandler(opStack)
            /\ ctl' = rest
            /\ lastCall' = [path |-> "normal", node |-> top.node,
                            entry |-> top.entry,
                            exit |-> StackAfterHandler(opStack),
                            result |-> retval, dispatched |-> TRUE,
                            exhausted |-> top.exhausted, prior |-> top.prior]
            /\ pc' = ReturnTo(rest)
    /\ UNCHANGED <<input, callArg, callStack, uniqueDepth, callStackMutex,
                   stackIds, keptRefs, freed, usedNodes, perf, gcLog,
                   refsAtEntry, everExhausted, lastLookup>>
    /\ UNCHANGED <<workerVars, featureVars>>

----------------------------------------------------------------------------
(* Opcode handlers, as far as they act on the interpreter's state *)

\* a handler evaluates its next ordered child with InterpretNode
HandlerInterpretChild ==
    /\ pc = "handler"
    /\ LET top == ctl[Len(ctl)]
           kids == input.children[top.node]
       IN  /\ top.next <= Len(kids)
           /\ callArg' = kids[top.next]
           /\ ctl' = [ctl EXCEPT ![Len(ctl)].next = @ + 1]
    /\ pc' = "call"
    /\ UNCHANGED <<input, opStack, callStack, uniqueDepth, callStackMutex,
                   stackIds, keptRefs, freed, usedNodes, perf, lastCall, gcLog,
                   refsAtEntry, everExhausted, lastLookup>>
    /\ UNCHANGED <<workerVars, featureVars>>

\* a handler allocates a node for an intermediate result
HandlerAllocNode ==
    /\ pc = "handler"
    /\ usedNodes < MaxUsedNodes
    /\ usedNodes' = usedNodes + 1
    /\ UNCHANGED <<input, pc, callArg, ctl, opStack, callStack, uniqueDepth,
                   callStackMutex, stackIds, keptRefs, freed, perf, lastCall,
                   gcLog, refsAtEntry, everExhausted, lastLookup>>
    /\ UNCHANGED <<workerVars, featureVars>>

----------------------------------------------------------------------------
(* Call-stack symbol lookup.  call_stack_index counts from 0, so the frame *)
(* callStackNodes[call_stack_index - 1] of the code is frames[idx].        *)

\* where the walk of GetCallStackSymbolLocation starts
HighestIndex_Size(size, depth, include_unique_access) == size

HighestIndex(size, depth, include_unique_access) ==
    IF include_unique_access THEN size ELSE depth

\* where the walk of GetCallStackSymbolLocation stops
LowestIndex_Zero(depth, include_shared_access) == 0

LowestIndex(depth, include_shared_access) ==
    IF include_shared_access THEN 0 ELSE depth

\* size_t arithmetic is modulo a power of two; the model computes with 30
\* bits, which leaves the wrap of 0 - 1 to the largest value as it is
SizeModulus == 2^30

\* the index reported when no frame holds the symbol: the top of the
\* stack, callStackNodes->size() - 1 as a size_t
TopIndex_Bottom(size) == 0

TopIndex(size) == (size - 1) % SizeModulus

\* a walk that starts at the oldest frame instead
RECURSIVE WalkUpTheStack_OldestFirst(_, _, _, _)
WalkUpTheStack_OldestFirst(frames, sid, idx, lowest) ==
    IF idx > lowest
    THEN IF sid \in frames[lowest + 1]
         THEN [found |-> TRUE, index |-> lowest]
         ELSE WalkUpTheStack_OldestFirst(frames, sid, idx, lowest + 1)
    ELSE [found |-> FALSE, index |-> TopIndex(Len(frames))]

\* the loop of both lookups: from call_stack_index = idx down to lowest,
\* the first frame that contains sid
RECURSIVE WalkUpTheStack(_, _, _, _)
WalkUpTheStack(frames, sid, idx, lowest) ==
    IF idx > lowest
    THEN IF sid \in frames[idx]
         THEN [found |-> TRUE, index |-> idx - 1]
         ELSE WalkUpTheStack(frames, sid, idx - 1, lowest)
    ELSE [found |-> FALSE, index |-> TopIndex(Len(frames))]

GetCallStackSymbolLocation(frames, depth, sid, include_unique_access, include_shared_access) ==
    WalkUpTheStack(frames, sid,
                   HighestIndex(Len(frames), depth, include_unique_access),
                   LowestIndex(depth, include_shared_access))

\* EvaluableNode::GetOrCreateMappedChildNode on a frame
GetOrCreateMappedChildNode(frame, sid) == frame \cup {sid}

\* the walk, then the call stack as GetOrCreateCallStackSymbolLocation
\* leaves it
GetOrCreateCallStackSymbolLocation(frames, sid) ==
    LET walk == WalkUpTheStack(frames, sid, Len(frames), 0)
    IN  IF walk.found
        THEN [found |-> TRUE, index |-> walk.index, created |-> FALSE,
              frames |-> frames, outside |-> FALSE]
        ELSE IF TopIndex(Len(frames)) + 1 \in DOMAIN frames
        THEN [found |-> FALSE, index |-> TopIndex(Len(frames)),
              created |-> sid \notin frames[TopIndex(Len(frames)) + 1],
              frames |-> [frames EXCEPT ![TopIndex(Len(frames)) + 1] =
                              GetOrCreateMappedChildNode(@, sid)],
              outside |-> FALSE]
        ELSE [found |-> FALSE, index |-> TopIndex(Len(frames)),
              created |-> TRUE, frames |-> frames, outside |-> TRUE]

\* the number of frames the call stack had when InterpretNode was entered
FramesAtEntry == Len(UseOrCreateCallStack(input.call_stack))

\* a handler pushes a new frame on the call stack
HandlerPushCallStack ==
    /\ pc = "handler"
    /\ Len(callStack) < MaxFrames
    /\ \E frame \in SUBSET Sids : callStack' = Append(callStack, frame)
    /\ lastLookup' = NoLookup
    /\ UNCHANGED <<input, pc, callArg, ctl, opStack, uniqueDepth,
                   callStackMutex, stackIds, keptRefs, freed, usedNodes, perf,
                   lastCall, gcLog, refsAtEntry, everExhausted>>
    /\ UNCHANGED <<workerVars, featureVars>>

\* a handler pops a frame it pushed
HandlerPopCallStack ==
    /\ pc = "handler"
    /\ Len(callStack) > FramesAtEntry
    /\ callStack' = SubSeq(callStack, 1, Len(callStack) - 1)
    /\ lastLookup' = NoLookup
    /\ UNCHANGED <<input, pc, callArg, ctl, opStack, uniqueDepth,
                   callStackMutex, stackIds, keptRefs, freed, usedNodes, perf,
                   lastCall, gcLog, refsAtEntry, everExhausted>>
    /\ UNCHANGED <<workerVars, featureVars>>

\* a handler looks a symbol up
HandlerGetCallStackSymbolLocation ==
    /\ pc = "handler"
    /\ \E sid \in Sids, iu \in BOOLEAN, is \in BOOLEAN :
        LET r == GetCallStackSymbolLocation(callStack, uniqueDepth, sid, iu, is)
        IN  lastLookup' = [op |-> "get", sid |-> sid,
                           include_unique_access |-> iu,
                           include_shared_access |-> is,
                           depth |-> uniqueDepth,
                           before |-> callStack, after |-> callStack,
                           found |-> r.found, created |-> FALSE,
                           index |-> r.index, outside |-> FALSE]
    /\ UNCHANGED <<input, pc, callArg, ctl, opStack, callStack, uniqueDepth,
                   callStackMutex, stackIds, keptRefs, freed, usedNodes, perf,
                   lastCall, gcLog, refsAtEntry, everExhausted>>
    /\ UNCHANGED <<workerVars, featureVars>>

\* what a read of (*callStackNodes)[i] outside the vector can do: the
\* thread faults, or a stray pointer is taken for the frame and the frames
\* stay as they are
OutsideReads == {"handler", "fault"}

\* a handler looks a symbol up to assign it
HandlerGetOrCreateCallStackSymbolLocation ==
    /\ pc = "handler"
    /\ \E sid \in Sids :
        LET r == GetOrCreateCallStackSymbolLocation(callStack, sid)
        IN  /\ callStack' = r.frames
            /\ lastLookup' = [op |-> "get_or_create", sid |-> sid,
                              include_unique_access |-> TRUE,
                              include_shared_access |-> TRUE,
                              depth |-> uniqueDepth,
                              before |-> callStack, after |-> r.frames,
                              found |-> r.found, created |-> r.created,
                              index |-> r.index, outside |-> r.outside]
            /\ IF r.outside THEN pc' \in OutsideReads ELSE UNCHANGED pc
    /\ UNCHANGED <<input, callArg, ctl, opStack, uniqueDepth,
                   callStackMutex, stackIds, keptRefs, freed, usedNodes, perf,
                   lastCall, gcLog, refsAtEntry, everExhausted>>
    /\ UNCHANGED <<workerVars, featureVars>>

----------------------------------------------------------------------------
(* The evaluation of one program by one interpreter *)

Inputs ==
    [en : {NullNode, 1},
     children : Programs,
     call_stack : {NoStack, [given |-> TRUE, frames |-> <<{}>>]},
     interpreter_node_stack :
        {NoList, [given |-> TRUE, nodes |-> <<>>], [given |-> TRUE, nodes |-> <<3>>]},
     construction_stack : {NoList, [given |-> TRUE, nodes |-> <<>>]},
     call_stack_write_mutex : {FALSE}]

Init ==
    /\ input \in Inputs
    /\ pc = "start"
    /\ callArg = NullNode
    /\ ctl = <<>>
    /\ opStack = <<>>
    /\ callStack = <<>>
    /\ uniqueDepth = 0
    /\ callStackMutex = FALSE
    /\ stackIds = [cs |-> "none", ins |-> "none", con |-> "none"]
    /\ keptRefs \in {[id \in StackIds |-> IF id = "cs_arg" /\ input.call_stack.given
                                          THEN k ELSE 0] : k \in 0..1}
    /\ freed = {}
    /\ usedNodes = 0
    /\ perf \in PerfBlocks
    /\ lastCall = NoCall
    /\ gcLog = NoGC
    /\ refsAtEntry = keptRefs
    /\ everExhausted = {}
    /\ lastLookup = NoLookup
    /\ sharedFrames = <<>>
    /\ callStackLock = Unlocked
    /\ workers = [t \in Workers |-> IdleWorker]
    /\ FeaturesUnused

Next ==
    \/ ExecuteNode
    \/ InterpretNode
    \/ HandlerInterpretChild
    \/ HandlerAllocNode
    \/ InterpretNodeReturn
    \/ ExecuteNodeReturn

Spec == Init /\ [][Next]_vars

----------------------------------------------------------------------------
(* One opcode handler working on the call stack it was given *)

GivenCallStacks ==
    {[given |-> TRUE, frames |-> <<f>>] : f \in SUBSET Sids}
    \cup {[given |-> TRUE, frames |-> <<f, g>>] : f \in SUBSET Sids, g \in SUBSET Sids}

InputsSym ==
    [en : {1},
     children : {[n \in Nodes |-> <<>>]},
     call_stack : {NoStack} \cup GivenCallStacks,
     interpreter_node_stack : {NoList},
     construction_stack : {NoList},
     call_stack_write_mutex : BOOLEAN]

\* the state an interpreter is constructed in, for one of the inputs
SymStart(inputs) ==
    /\ input \in {in \in inputs :
                    in.call_stack_write_mutex => in.call_stack.given}
    /\ pc = "start"
    /\ callArg = NullNode
    /\ ctl = <<>>
    /\ opStack = <<>>
    /\ callStack = <<>>
    /\ uniqueDepth = 0
    /\ callStackMutex = FALSE
    /\ stackIds = [cs |-> "none", ins |-> "none", con |-> "none"]
    /\ keptRefs = [id \in StackIds |-> 0]
    /\ freed = {}
    /\ usedNodes = 0
    /\ perf = NoPerf
    /\ lastCall = NoCall
    /\ gcLog = NoGC
    /\ refsAtEntry = keptRefs
    /\ everExhausted = {}
    /\ lastLookup = NoLookup
    /\ sharedFrames = <<>>
    /\ callStackLock = Unlocked
    /\ workers = [t \in Workers |-> IdleWorker]
    /\ FeaturesUnused

InitSym == SymStart(InputsSym)

\* the inputs of InputsSym and a call-stack list node that holds no frame
InputsAnyStack ==
    [en : {1},
     children : {[n \in Nodes |-> <<>>]},
     call_stack : {NoStack, [given |-> TRUE, frames |-> <<>>]}
                    \cup GivenCallStacks,
     interpreter_node_stack : {NoList},
     construction_stack : {NoList},
     call_stack_write_mutex : BOOLEAN]

InitAnyStack == SymStart(InputsAnyStack)

NextSym ==
    \/ ExecuteNode
    \/ InterpretNode
    \/ HandlerPushCallStack
    \/ HandlerPopCallStack
    \/ HandlerGetCallStackSymbolLocation
    \/ HandlerGetOrCreateCallStackSymbolLocation
    \/ InterpretNodeReturn
    \/ ExecuteNodeReturn

SpecSym == InitSym /\ [][NextSym]_vars

SpecAnyStack == InitAnyStack /\ [][NextSym]_vars

----------------------------------------------------------------------------
(* The workers of a concurrent opcode.  Every worker is an interpreter of  *)
(* its own that ExecuteNode hands a copy of the parent's call-stack list   *)
(* and the parent's read-write mutex; the frames of that list are shared,  *)
(* the frames a worker pushes are its own.  A lookup reads one frame at a  *)
(* time, and a read or write of a frame takes two steps, so that accesses  *)
(* of different workers can overlap.                                       *)

\* the symbols the workers retrieve and assign
WorkerSids == {1}

\* the call stacks a parent hands to its workers
SharedCallStacks ==
    {<<f>> : f \in SUBSET WorkerSids}
    \cup {<<f, g>> : f \in SUBSET WorkerSids, g \in SUBSET WorkerSids}

\* the call stack of worker t
FramesOf(t) == sharedFrames \o workers[t].own

HoldsCallStackLock(t) ==
    callStackLock.writer = t \/ t \in callStackLock.readers

\* ExecuteNode in a worker: the depth and the mutex
WorkerExecuteNode(t) ==
    /\ workers[t].pc = "idle"
    /\ workers' = [workers EXCEPT
            ![t].pc = "handler",
            ![t].depth = UniqueAccessStartingDepth(
                            [given |-> TRUE, frames |-> sharedFrames])]
    /\ UNCHANGED <<sharedFrames, callStackLock>>
    /\ UNCHANGED <<interpreterVars, featureVars>>

\* a handler of the worker pushes a frame
WorkerPushCallStack(t) ==
    /\ workers[t].pc = "handler"
    /\ Len(workers[t].own) < MaxOwnFrames
    /\ \E frame \in SUBSET WorkerSids :
        workers' = [workers EXCEPT ![t].own = Append(@, frame)]
    /\ UNCHANGED <<sharedFrames, callStackLock>>
    /\ UNCHANGED <<interpreterVars, featureVars>>

\* a handler of the worker pops a frame it pushed
WorkerPopCallStack(t) ==
    /\ workers[t].pc = "handler"
    /\ workers[t].own # <<>>
    /\ workers' = [workers EXCEPT ![t].own = SubSeq(@, 1, Len(@) - 1)]
    /\ UNCHANGED <<sharedFrames, callStackLock>>
    /\ UNCHANGED <<interpreterVars, featureVars>>

\* a handler starts to retrieve or to assign a symbol: first
\* GetCallStackSymbolLocation over the worker's own frames, without the lock
WorkerLookupUniqueAccess(t) ==
    /\ workers[t].pc = "handler"
    /\ \E sid \in WorkerSids, kind \in {"retrieve", "assign"} :
        workers' = [workers EXCEPT
            ![t].pc = "walk_unique",
            ![t].kind = kind,
            ![t].sid = sid,
            ![t].idx = HighestIndex(Len(FramesOf(t)), workers[t].depth, TRUE),
            ![t].lowest = LowestIndex(workers[t].depth, FALSE)]
    /\ UNCHANGED <<sharedFrames, callStackLock>>
    /\ UNCHANGED <<interpreterVars, featureVars>>

\* the walk reads the bindings of frame call_stack_index - 1
WorkerBeginReadFrame(t) ==
    /\ workers[t].pc \in {"walk_unique", "walk_shared", "walk_all"}
    /\ ~workers[t].access.active
    /\ workers[t].idx > workers[t].lowest
    /\ workers' = [workers EXCEPT
            ![t].access = [active |-> TRUE, frame |-> workers[t].idx - 1,
                           write |-> FALSE]]
    /\ UNCHANGED <<sharedFrames, callStackLock>>
    /\ UNCHANGED <<interpreterVars, featureVars>>

\* the read is over: the symbol is found in that frame, or the walk goes on
WorkerEndReadFrame(t) ==
    /\ workers[t].pc \in {"walk_unique", "walk_shared", "walk_all"}
    /\ workers[t].access.active
    /\ IF workers[t].sid \in FramesOf(t)[workers[t].idx]
       THEN workers' = [workers EXCEPT
                ![t].access = NoAccess,
                ![t].idx = @ - 1,
                ![t].pc = IF workers[t].kind = "assign" THEN "write" ELSE "unlock"]
       ELSE workers' = [workers EXCEPT
                ![t].access = NoAccess,
                ![t].idx = @ - 1]
    /\ UNCHANGED <<sharedFrames, callStackLock>>
    /\ UNCHANGED <<interpreterVars, featureVars>>

\* the walk has ended without finding the symbol
WorkerNotFound(t) ==
    /\ workers[t].pc \in {"walk_unique", "walk_shared", "walk_all"}
    /\ ~workers[t].access.active
    /\ workers[t].idx <= workers[t].lowest
    /\ workers' = [workers EXCEPT
            ![t].idx = TopIndex(Len(FramesOf(t))),
            ![t].pc = CASE workers[t].pc = "walk_unique" -> "lock"
                        [] workers[t].pc = "walk_shared" -> "unlock"
                        [] OTHER -> "create"]
    /\ UNCHANGED <<sharedFrames, callStackLock>>
    /\ UNCHANGED <<interpreterVars, featureVars>>

\* retrieve: take the read lock, then GetCallStackSymbolLocation over the
\* shared frames
WorkerReadLock(t) ==
    /\ workers[t].pc = "lock"
    /\ workers[t].kind = "retrieve"
    /\ callStackLock.writer = 0
    /\ callStackLock' = [callStackLock EXCEPT !.readers = @ \cup {t}]
    /\ workers' = [workers EXCEPT
            ![t].pc = "walk_shared",
            ![t].idx = HighestIndex(Len(FramesOf(t)), workers[t].depth, FALSE),
            ![t].lowest = LowestIndex(workers[t].depth, TRUE)]
    /\ UNCHANGED sharedFrames
    /\ UNCHANGED <<interpreterVars, featureVars>>

\* assign: take the write lock, then GetOrCreateCallStackSymbolLocation,
\* which walks every frame
WorkerWriteLock(t) ==
    /\ workers[t].pc = "lock"
    /\ workers[t].kind = "assign"
    /\ callStackLock.writer = 0
    /\ callStackLock.readers = {}
    /\ callStackLock' = [callStackLock EXCEPT !.writer = t]
    /\ workers' = [workers EXCEPT
            ![t].pc = "walk_all",
            ![t].idx = Len(FramesOf(t)),
            ![t].lowest = 0]
    /\ UNCHANGED sharedFrames
    /\ UNCHANGED <<interpreterVars, featureVars>>

\* GetOrCreateCallStackSymbolLocation creates the binding in the top frame,
\* or the handler assigns through the slot it was given
WorkerBeginWriteFrame(t) ==
    /\ workers[t].pc \in {"create", "write"}
    /\ ~workers[t].access.active
    /\ workers' = [workers EXCEPT
            ![t].access = [active |-> TRUE, frame |-> workers[t].idx,
                           write |-> TRUE]]
    /\ UNCHANGED <<sharedFrames, callStackLock>>
    /\ UNCHANGED <<interpreterVars, featureVars>>

WorkerEndWriteFrame(t) ==
    /\ workers[t].pc \in {"create", "write"}
    /\ workers[t].access.active
    /\ LET f == workers[t].idx + 1
           shared == f <= Len(sharedFrames)
           creates == workers[t].pc = "create"
       IN  /\ sharedFrames' =
                IF creates /\ shared
                THEN [sharedFrames EXCEPT ![f] =
                        GetOrCreateMappedChildNode(@, workers[t].sid)]
                ELSE sharedFrames
           /\ workers' = [workers EXCEPT
                ![t].access = NoAccess,
                ![t].pc = IF creates THEN "write" ELSE "unlock",
                ![t].own = IF creates /\ ~shared
                           THEN [@ EXCEPT ![f - Len(sharedFrames)] =
                                    GetOrCreateMappedChildNode(@, workers[t].sid)]
                           ELSE @]
    /\ UNCHANGED callStackLock
    /\ UNCHANGED <<interpreterVars, featureVars>>

\* the handler is through with the symbol and releases the lock it holds
WorkerUnlock(t) ==
    /\ workers[t].pc = "unlock"
    /\ callStackLock' = [writer |-> IF callStackLock.writer = t THEN 0
                                    ELSE callStackLock.writer,
                         readers |-> callStackLock.readers \ {t}]
    /\ workers' = [workers EXCEPT
            ![t].pc = "handler", ![t].kind = "none", ![t].sid = 0,
            ![t].idx = 0, ![t].lowest = 0]
    /\ UNCHANGED sharedFrames
    /\ UNCHANGED <<interpreterVars, featureVars>>

InitMT ==
    /\ input = [en |-> 1, children |-> [n \in Nodes |-> <<>>],
                call_stack |-> NoStack, interpreter_node_stack |-> NoList,
                construction_stack |-> NoList, call_stack_write_mutex |-> FALSE]
    /\ pc = "handler"
    /\ callArg = NullNode
    /\ ctl = <<>>
    /\ opStack = <<>>
    /\ callStack = <<>>
    /\ uniqueDepth = 0
    /\ callStackMutex = FALSE
    /\ stackIds = [cs |-> "none", ins |-> "none", con |-> "none"]
    /\ keptRefs = [id \in StackIds |-> 0]
    /\ freed = {}
    /\ usedNodes = 0
    /\ perf = NoPerf
    /\ lastCall = NoCall
    /\ gcLog = NoGC
    /\ refsAtEntry = keptRefs
    /\ everExhausted = {}
    /\ lastLookup = NoLookup
    /\ sharedFrames \in SharedCallStacks
    /\ callStackLock = Unlocked
    /\ workers = [t \in Workers |-> IdleWorker]
    /\ FeaturesUnused

NextMT ==
    \E t \in Workers :
        \/ WorkerExecuteNode(t)
        \/ WorkerPushCallStack(t)
        \/ WorkerPopCallStack(t)
        \/ WorkerLookupUniqueAccess(t)
        \/ WorkerBeginReadFrame(t)
        \/ WorkerEndReadFrame(t)
        \/ WorkerNotFound(t)
        \/ WorkerReadLock(t)
        \/ WorkerWriteLock(t)
        \/ WorkerBeginWriteFrame(t)
        \/ WorkerEndWriteFrame(t)
        \/ WorkerUnlock(t)

SpecMT == InitMT /\ [][NextMT]_vars

----------------------------------------------------------------------------
(* A handler parses the trailing parameters of its opcode into a block *)

\* parameter lists that hold one value throughout but for one position
ParamLists ==
    {[i \in 1..n |-> IF i = k THEN v ELSE w] :
        n \in 0..MaxParams, k \in 1..MaxParams, v \in Doubles, w \in Doubles}

\* what the block on the handler's stack holds before it is populated
StaleBlock ==
    [present |-> TRUE, maxNumExecutionSteps |-> 1, curExecutionStep |-> 1,
     maxNumAllocatedNodes |-> 1, curNumAllocatedNodesAllocatedToEntities |-> 1,
     maxOpcodeExecutionDepth |-> 1,
     constrainMaxContainedEntities |-> TRUE, maxContainedEntities |-> 1,
     constrainMaxContainedEntityDepth |-> TRUE, maxContainedEntityDepth |-> 1,
     maxEntityIdLength |-> 1, entityToConstrainFrom |-> TRUE]

HandlerPopulatePerformanceConstraintsFromParams ==
    /\ pc = "params"
    /\ LET offset == paramCall.perf_constraint_param_offset
           include == paramCall.include_entity_constraints
           block == ConstraintsFromParams(params, offset, include)
       IN  /\ childPerf' = block
           /\ paramReads' = ParamPositions(params, offset, include)
           /\ paramCall' = [paramCall EXCEPT
                                !.state = "returned",
                                !.any_constraints = AnyConstraints(perf, block)]
    /\ pc' = "params_done"
    /\ UNCHANGED <<input, callArg, ctl, opStack, callStack, uniqueDepth,
                   callStackMutex, stackIds, keptRefs, freed, usedNodes, perf,
                   lastCall, gcLog, refsAtEntry, everExhausted, lastLookup>>
    /\ UNCHANGED <<numActiveThreads, entities, requested, firstCheck, params>>
    /\ UNCHANGED otherThanConstraint

\* the interpreter's own variables while a handler of it is looked at alone
InterpreterInHandler ==
    /\ input = [en |-> 1, children |-> [n \in Nodes |-> <<>>],
                call_stack |-> NoStack, interpreter_node_stack |-> NoList,
                construction_stack |-> NoList, call_stack_write_mutex |-> FALSE]
    /\ callArg = NullNode
    /\ ctl = <<>>
    /\ callStack = <<{}>>
    /\ uniqueDepth = 0
    /\ callStackMutex = FALSE
    /\ stackIds = [cs |-> "cs_new", ins |-> "ins_new", con |-> "con_new"]
    /\ keptRefs = [id \in StackIds |-> 0]
    /\ freed = {}
    /\ lastCall = NoCall
    /\ gcLog = NoGC
    /\ refsAtEntry = keptRefs
    /\ everExhausted = {}
    /\ lastLookup = NoLookup
    /\ sharedFrames = <<>>
    /\ callStackLock = Unlocked
    /\ workers = [t \in Workers |-> IdleWorker]

InitParams ==
    /\ InterpreterInHandler
    /\ pc = "params"
    /\ opStack = <<1>>
    /\ usedNodes = 0
    /\ perf \in {NoPerf, UnconstrainedPerf}
    /\ childPerf \in {UnconstrainedPerf, StaleBlock}
    /\ params \in ParamLists
    /\ paramCall \in [state : {"called"},
                      perf_constraint_param_offset : {0, 1},
                      include_entity_constraints : BOOLEAN,
                      any_constraints : {FALSE}]
    /\ paramReads = {}
    /\ numActiveThreads = 1
    /\ entities = NoEntity
    /\ requested = NoPerf
    /\ firstCheck = NoCheck
    /\ ConcurrencyUnused
    /\ RewriteUnused
    /\ AssetsUnused
    /\ HelpersUnused
    /\ ConvertUnused

NextParams == HandlerPopulatePerformanceConstraintsFromParams

SpecParams == InitParams /\ [][NextParams]_vars

----------------------------------------------------------------------------
(* A handler derives the block of a nested interpreter from its own block, *)
(* and that interpreter comes to its first resource check                   *)

BudgetValues == {0, 1, MaxBudget}

\* the parent's blocks that constrain the evaluation
ParentBudgetBlocks ==
    {[UnconstrainedPerf EXCEPT !.maxNumExecutionSteps = s.max,
                               !.curExecutionStep = s.cur,
                               !.maxNumAllocatedNodes = n,
                               !.maxOpcodeExecutionDepth = d,
                               !.maxEntityIdLength = l] :
        s \in {[max |-> 0, cur |-> 0]}
                \cup [max : {1, MaxBudget}, cur : {0, 1}],
        n \in BudgetValues, d \in BudgetValues, l \in {0, MaxBudget}}

\* the blocks PopulatePerformanceConstraintsFromParams hands over
RequestedBudgetBlocks ==
    {[UnconstrainedPerf EXCEPT !.maxNumExecutionSteps = s,
                               !.maxNumAllocatedNodes = n,
                               !.maxOpcodeExecutionDepth = d,
                               !.maxEntityIdLength = l] :
        s \in BudgetValues, n \in BudgetValues, d \in BudgetValues,
        l \in {0, 1, MaxBudget + 1}}

\* the parent's blocks that constrain the contained entities
ParentEntityBlocks ==
    {[UnconstrainedPerf EXCEPT !.entityToConstrainFrom = TRUE,
                               !.constrainMaxContainedEntities = e.on,
                               !.maxContainedEntities = e.max,
                               !.constrainMaxContainedEntityDepth = d.on,
                               !.maxContainedEntityDepth = d.max] :
        e \in {[on |-> FALSE, max |-> 0]} \cup [on : {TRUE}, max : BudgetValues],
        d \in {[on |-> FALSE, max |-> 0]} \cup [on : {TRUE}, max : BudgetValues]}

RequestedEntityBlocks ==
    {[UnconstrainedPerf EXCEPT !.constrainMaxContainedEntities = e.on,
                               !.maxContainedEntities = e.max,
                               !.constrainMaxContainedEntityDepth = d.on,
                               !.maxContainedEntityDepth = d.max] :
        e \in {[on |-> FALSE, max |-> 0]} \cup [on : {TRUE}, max : BudgetValues],
        d \in {[on |-> FALSE, max |-> 0]} \cup [on : {TRUE}, max : BudgetValues]}

\* an entity outside of the parent's entity
OtherEntity == [NoEntity EXCEPT !.given = TRUE]

\* entities the parent's entity deeply contains: the entities the parent's
\* entity contains include the entity itself and all it contains
ContainedEntities ==
    {e \in [given : {TRUE}, contained : {TRUE},
            container_total_entities : {1, MaxBudget, MaxBudget + 1},
            contained_total_entities : {0, 1}, cur_depth : {1, MaxBudget}] :
        e.contained_total_entities < e.container_total_entities}

HandlerPopulatePerformanceCounters ==
    /\ pc = "populate"
    /\ requested' = childPerf
    /\ childPerf' =
            IF ~childPerf.present THEN childPerf
            ELSE PopulatePerformanceCounters(perf, childPerf, usedNodes,
                        Len(opStack), numActiveThreads, entities)
    /\ pc' = "populated"
    /\ UNCHANGED <<input, callArg, ctl, opStack, callStack, uniqueDepth,
                   callStackMutex, stackIds, keptRefs, freed, usedNodes, perf,
                   lastCall, gcLog, refsAtEntry, everExhausted, lastLookup>>
    /\ UNCHANGED <<numActiveThreads, entities, firstCheck, params, paramCall,
                   paramReads>>
    /\ UNCHANGED otherThanConstraint

\* the list nodes ExecuteNode allocates when it is given a call stack only
NewStackNodes == 2

\* the interpreter that was given childPerf executes a node: ExecuteNode
\* allocates the stacks it was not given, InterpretNode pushes the node on
\* the new opcode stack, collects garbage and checks the resources
ChildFirstResourceCheck ==
    /\ pc = "populated"
    /\ childPerf.present
    /\ \E used \in 0..(usedNodes + NewStackNodes) :
        LET pushed == Append(<<>>, 1)
            counted == IncrementPerformanceCounters(childPerf)
        IN  /\ childPerf' = counted
            /\ firstCheck' = [made |-> TRUE, depth |-> Len(pushed),
                              used |-> used,
                              exceeded |-> ExceededBudgets(counted, used,
                                                           Len(pushed))]
    /\ pc' = "checked"
    /\ UNCHANGED <<input, callArg, ctl, opStack, callStack, uniqueDepth,
                   callStackMutex, stackIds, keptRefs, freed, usedNodes, perf,
                   lastCall, gcLog, refsAtEntry, everExhausted, lastLookup>>
    /\ UNCHANGED <<numActiveThreads, entities, requested, params, paramCall,
                   paramReads>>
    /\ UNCHANGED otherThanConstraint

InitCounters ==
    /\ InterpreterInHandler
    /\ pc = "populate"
    /\ \/ /\ perf \in {NoPerf} \cup ParentBudgetBlocks
          /\ childPerf \in {NoPerf} \cup RequestedBudgetBlocks
          /\ opStack \in {<<>>, <<1>>}
          /\ usedNodes \in {0, 1}
          /\ numActiveThreads \in 1..MaxThreads
          /\ entities \in {NoEntity, OtherEntity}
       \/ /\ perf \in ParentEntityBlocks
          /\ childPerf \in RequestedEntityBlocks
          /\ opStack = <<1>>
          /\ usedNodes = 0
          /\ numActiveThreads = 1
          /\ entities \in {OtherEntity} \cup ContainedEntities
    /\ requested = NoPerf
    /\ firstCheck = NoCheck
    /\ params = <<>>
    /\ paramCall = NoParamCall
    /\ paramReads = {}
    /\ ConcurrencyUnused
    /\ RewriteUnused
    /\ AssetsUnused
    /\ HelpersUnused
    /\ ConvertUnused

NextCounters ==
    \/ HandlerPopulatePerformanceCounters
    \/ ChildFirstResourceCheck

SpecCounters == InitCounters /\ [][NextCounters]_vars

----------------------------------------------------------------------------
(* InterpretEvaluableNodesConcurrently.  The calling thread enqueues one   *)
(* task for every node; threads of the pool take a queued task when the    *)
(* batch-enqueue lock is free, evaluate its node and store the result      *)
(* through the pointer the task was given.                                 *)

\* largest number of child nodes of the opcode
MaxTasks == 3

\* the result of evaluating a child node that has no side effects
ResultOf(node) == node + 10

\* an entry of interpreted_nodes that nothing was stored in
NoResult == 0

\* a fallback that overlooks the number of nodes
FallsBackToSerial_AnyCount(concurrency, num_tasks, threads_available) ==
    ~concurrency \/ ~threads_available

\* whether the function returns false and leaves the evaluation to the caller
FallsBackToSerial(concurrency, num_tasks, threads_available) ==
    ~concurrency \/ num_tasks < 2 \/ ~threads_available

\* every task stores through the first entry
ResultSlot_First(i) == 1

\* the entry of interpreted_nodes task i is given a pointer to
ResultSlot(i) == i

\* interpreted_nodes.resize(num_tasks)
Resize(seq, n) ==
    [i \in 1..n |-> IF i <= Len(seq) THEN seq[i] ELSE NoResult]

\* the entry: the three checks, the first two before the lock is taken
ConcurrentlyBegin ==
    /\ pc = "concurrent"
    /\ LET num_tasks == Len(concArgs.nodes)
       IN  IF FallsBackToSerial(concArgs.concurrency, num_tasks,
                                concArgs.threads_available)
           THEN /\ concReturn' = "false"
                /\ pc' = "returned"
                /\ UNCHANGED <<enqueueLock, interpretedNodes, concLog>>
           ELSE /\ enqueueLock' = TRUE
                /\ interpretedNodes' = Resize(interpretedNodes, num_tasks)
                /\ concLog' = [concLog EXCEPT !.resized = TRUE]
                /\ pc' = "enqueue"
                /\ UNCHANGED concReturn
    /\ UNCHANGED <<input, callArg, ctl, opStack, callStack, uniqueDepth,
                   callStackMutex, stackIds, keptRefs, freed, usedNodes, perf,
                   lastCall, gcLog, refsAtEntry, everExhausted, lastLookup>>
    /\ UNCHANGED <<concArgs, tasks>>
    /\ UNCHANGED otherThanConcurrent

\* one turn of the loop: EnqueueTask(nodes[i], &interpreted_nodes[i])
ConcurrentlyEnqueueTask ==
    /\ pc = "enqueue"
    /\ Len(tasks) < Len(concArgs.nodes)
    /\ LET i == Len(tasks) + 1
       IN  tasks' = Append(tasks, [node |-> concArgs.nodes[i],
                                   slot |-> ResultSlot(i),
                                   immediate_results |-> concArgs.immediate_results,
                                   state |-> "queued"])
    /\ concLog' = [concLog EXCEPT !.enqueued_unlocked = @ \/ ~enqueueLock]
    /\ UNCHANGED <<input, pc, callArg, ctl, opStack, callStack, uniqueDepth,
                   callStackMutex, stackIds, keptRefs, freed, usedNodes, perf,
                   lastCall, gcLog, refsAtEntry, everExhausted, lastLookup>>
    /\ UNCHANGED <<concArgs, enqueueLock, interpretedNodes, concReturn>>
    /\ UNCHANGED otherThanConcurrent

\* enqueue_task_lock.Unlock() after the last task
ConcurrentlyUnlock ==
    /\ pc = "enqueue"
    /\ Len(tasks) = Len(concArgs.nodes)
    /\ enqueueLock' = FALSE
    /\ pc' = "end_concurrency"
    /\ UNCHANGED <<input, callArg, ctl, opStack, callStack, uniqueDepth,
                   callStackMutex, stackIds, keptRefs, freed, usedNodes, perf,
                   lastCall, gcLog, refsAtEntry, everExhausted, lastLookup>>
    /\ UNCHANGED <<concArgs, tasks, interpretedNodes, concReturn, concLog>>
    /\ UNCHANGED otherThanConcurrent

\* a thread of the pool takes a queued task
TaskStart(i) ==
    /\ i \in 1..Len(tasks)
    /\ tasks[i].state = "queued"
    /\ ~enqueueLock
    /\ tasks' = [tasks EXCEPT ![i].state = "running"]
    /\ UNCHANGED <<concArgs, enqueueLock, interpretedNodes, concReturn, concLog>>
    /\ UNCHANGED <<interpreterVars, otherThanConcurrent>>

\* the task has evaluated its node: it stores the result and is complete
TaskComplete(i) ==
    /\ i \in 1..Len(tasks)
    /\ tasks[i].state = "running"
    /\ interpretedNodes' =
            [interpretedNodes EXCEPT ![tasks[i].slot] = ResultOf(tasks[i].node)]
    /\ tasks' = [tasks EXCEPT ![i].state = "done"]
    /\ concLog' = [concLog EXCEPT !.completed = Append(@, i)]
    /\ UNCHANGED <<concArgs, enqueueLock, concReturn>>
    /\ UNCHANGED <<interpreterVars, otherThanConcurrent>>

\* an EndConcurrency that does not wait for the tasks
TasksComplete_NoWait(ts) == TRUE

\* what ConcurrencyManager::EndConcurrency waits for: every task that was
\* enqueued is complete
TasksComplete(ts) == \A i \in 1..Len(ts) : ts[i].state = "done"

\* concurrency_manager.EndConcurrency() returns when every task is
\* complete, and the function returns true
ConcurrentlyEndConcurrency ==
    /\ pc = "end_concurrency"
    /\ TasksComplete(tasks)
    /\ concReturn' = "true"
    /\ pc' = "returned"
    /\ UNCHANGED <<input, callArg, ctl, opStack, callStack, uniqueDepth,
                   callStackMutex, stackIds, keptRefs, freed, usedNodes, perf,
                   lastCall, gcLog, refsAtEntry, everExhausted, lastLookup>>
    /\ UNCHANGED <<concArgs, enqueueLock, tasks, interpretedNodes, concLog>>
    /\ UNCHANGED otherThanConcurrent

\* the lists of child nodes of the opcode
NodeLists == UNION {[1..n -> Nodes] : n \in 0..MaxTasks}

InitConcurrent ==
    /\ InterpreterInHandler
    /\ pc = "concurrent"
    /\ opStack = <<1>>
    /\ usedNodes = 0
    /\ perf = NoPerf
    /\ ConstraintsUnused
    /\ interpretedNodes \in {<<>>, <<ResultOf(3)>>}
    /\ concArgs \in [concurrency : BOOLEAN, nodes : NodeLists,
                     immediate_results : BOOLEAN,
                     threads_available : BOOLEAN,
                     interpreted_at_entry : {interpretedNodes}]
    /\ enqueueLock = FALSE
    /\ tasks = <<>>
    /\ concReturn = "none"
    /\ concLog = NoConcLog
    /\ RewriteUnused
    /\ AssetsUnused
    /\ HelpersUnused
    /\ ConvertUnused

NextConcurrent ==
    \/ ConcurrentlyBegin
    \/ ConcurrentlyEnqueueTask
    \/ ConcurrentlyUnlock
    \/ \E i \in 1..MaxTasks : TaskStart(i)
    \/ \E i \in 1..MaxTasks : TaskComplete(i)
    \/ ConcurrentlyEndConcurrency

SpecConcurrent == InitConcurrent /\ [][NextConcurrent]_vars

----------------------------------------------------------------------------
(* RewriteByFunction.  The nodes of the original graph are those of Nodes  *)
(* and the ENT_NULL nodes allocated for null trees; the copy of original n *)
(* is CopyOf(n), and a node the user function allocates for its result is  *)
(* FreshResult of the copy it was applied to.  A map is a function on the  *)
(* keys inserted so far.  rwLog describes the walk up the parents that the *)
(* last step made, if it made one.                                         *)

\* the ENT_NULL node allocated for the k-th null tree
NullOriginal(k) == 3 + k

\* evaluableNodeManager->AllocNode(tree): the copy of an original
CopyOf(tree) == tree + 10

\* a node the user function allocates for its result
FreshResult(new_tree) == new_tree + 10

\* a walk that marks the node and leaves its parents alone
RECURSIVE SetAllParentNodesNeedCycleCheck_NodeOnly(_, _, _)
SetAllParentNodesNeedCycleCheck_NodeOnly(node, flags, parents) ==
    IF node = NullNode THEN flags ELSE [flags EXCEPT ![node] = TRUE]

\* climbs new_node_to_new_parent_node from node and sets need_cycle_check,
\* until a node that has it set already
RECURSIVE SetAllParentNodesNeedCycleCheck(_, _, _)
SetAllParentNodesNeedCycleCheck(node, flags, parents) ==
    IF node = NullNode THEN flags
    ELSE IF flags[node] THEN flags
    ELSE IF node \notin DOMAIN parents
         THEN [flags EXCEPT ![node] = TRUE]
         ELSE SetAllParentNodesNeedCycleCheck(parents[node],
                    [flags EXCEPT ![node] = TRUE], parents)

\* the reference a revisit returns: the new node of the record
RevisitResult_Unique(existing) == [node |-> existing, unique |-> TRUE]

RevisitResult(existing) == [node |-> existing, unique |-> FALSE]

\* EvaluableNodeReference::UpdatePropertiesBasedOnAttachedNode: the flag of
\* the node the reference attached is stored in
UpdatePropertiesBasedOnAttachedNode(flags, new_tree, attached) ==
    IF attached.node = NullNode THEN flags
    ELSE IF ~attached.unique \/ flags[attached.node]
         THEN [flags EXCEPT ![new_tree] = TRUE]
         ELSE flags

\* whether RewriteByFunction pushes a construction context for the node
PushesConstructionContext(kind, num_children) ==
    kind = "assoc" \/ (kind = "list" /\ num_children > 0)

\* the kind, children and flag of an original node
KindOf(tree) == IF tree \in Nodes THEN rwInput.kind[tree] ELSE "immediate"

ChildrenOf(tree) == IF tree \in Nodes THEN rwInput.children[tree] ELSE <<>>

FlagOf(tree) == IF tree \in Nodes THEN rwInput.flags[tree] ELSE FALSE

\* an emplace that inserts a record whether or not the map has the key
Inserted_Always(tree, map) == TRUE

\* original_node_to_new_node.emplace(tree, nullptr): whether the record was
\* inserted, which it is when the map had none for the key
Inserted(tree, map) == tree \notin DOMAIN map

\* where control goes when a RewriteByFunction call returns
RewriteReturnTo(frames) == IF frames = <<>> THEN "rw_done" ELSE "rw_return"

\* the call: a null tree, a revisit, or the copy of a new original
RewriteByFunctionEnter ==
    /\ pc = "rw_call"
    /\ LET isnull == rwArg.tree = NullNode
           tree == IF isnull THEN NullOriginal(rwNulls + 1) ELSE rwArg.tree
       IN  /\ rwNulls' = IF isnull THEN rwNulls + 1 ELSE rwNulls
           /\ IF ~Inserted(tree, originalToNew)
              THEN LET existing == originalToNew[tree]
                       marked == SetAllParentNodesNeedCycleCheck(existing,
                                        needCycleCheck, newToParent)
                   IN  /\ needCycleCheck' = marked
                       /\ rwRet' = RevisitResult(existing)
                       /\ rwLog' = [op |-> "revisit", node |-> existing,
                                    before |-> needCycleCheck,
                                    after |-> marked, parents |-> newToParent]
                       /\ pc' = RewriteReturnTo(rwFrames)
                       /\ UNCHANGED <<rwFrames, originalToNew, newToParent,
                                      newChildren, constructionStack,
                                      rwTrace>>
              ELSE LET new_tree == CopyOf(tree)
                   IN  /\ originalToNew' = originalToNew @@ (tree :> new_tree)
                       /\ newToParent' =
                            newToParent @@ (new_tree :> rwArg.new_parent_node)
                       /\ newChildren' =
                            newChildren @@ (new_tree :> ChildrenOf(tree))
                       /\ needCycleCheck' =
                            needCycleCheck @@ (new_tree :> FlagOf(tree))
                       /\ rwFrames' = Append(rwFrames,
                                [tree |-> tree, new_tree |-> new_tree,
                                 next |-> 1])
                       /\ IF PushesConstructionContext(KindOf(tree),
                                                       Len(ChildrenOf(tree)))
                          THEN /\ constructionStack' =
                                    Append(constructionStack,
                                        [target |-> new_tree, index |-> 0,
                                         value |-> NullNode,
                                         side_effect |-> FALSE])
                               /\ pc' = "rw_children"
                          ELSE /\ pc' = "rw_apply"
                               /\ UNCHANGED constructionStack
                       /\ rwLog' = NoWalk
                       /\ rwTrace' = [rwTrace EXCEPT
                                          !.copied = Append(@, tree)]
                       /\ UNCHANGED rwRet
    /\ UNCHANGED <<rwInput, rwArg>>
    /\ UNCHANGED <<input, callArg, ctl, opStack, callStack, uniqueDepth,
                   callStackMutex, stackIds, keptRefs, freed, usedNodes, perf,
                   lastCall, gcLog, refsAtEntry, everExhausted, lastLookup>>
    /\ UNCHANGED otherThanRewrite

\* the loop over the child slots: index and value of the top construction
\* context are set and the child is rewritten
RewriteNextChild ==
    /\ pc = "rw_children"
    /\ LET top == rwFrames[Len(rwFrames)]
           slots == newChildren[top.new_tree]
       IN  /\ top.next <= Len(slots)
           /\ constructionStack' =
                [constructionStack EXCEPT
                    ![Len(constructionStack)].index = top.next - 1,
                    ![Len(constructionStack)].value = slots[top.next]]
           /\ rwArg' = [tree |-> slots[top.next],
                        new_parent_node |-> top.new_tree]
    /\ pc' = "rw_call"
    /\ rwLog' = NoWalk
    /\ UNCHANGED <<rwInput, rwFrames, rwRet, originalToNew, newToParent,
                   newChildren, needCycleCheck, rwNulls, rwTrace>>
    /\ UNCHANGED <<input, callArg, ctl, opStack, callStack, uniqueDepth,
                   callStackMutex, stackIds, keptRefs, freed, usedNodes, perf,
                   lastCall, gcLog, refsAtEntry, everExhausted, lastLookup>>
    /\ UNCHANGED otherThanRewrite

\* the rewrite of a child has returned new_e: the properties of new_tree are
\* updated and new_e is stored in the slot
RewriteChildReturned ==
    /\ pc = "rw_return"
    /\ rwFrames # <<>>
    /\ LET top == rwFrames[Len(rwFrames)]
       IN  /\ needCycleCheck' =
                UpdatePropertiesBasedOnAttachedNode(needCycleCheck,
                                                    top.new_tree, rwRet)
           /\ newChildren' =
                [newChildren EXCEPT ![top.new_tree][top.next] = rwRet.node]
           /\ rwFrames' = [rwFrames EXCEPT ![Len(rwFrames)].next = @ + 1]
    /\ pc' = "rw_children"
    /\ rwLog' = NoWalk
    /\ UNCHANGED <<rwInput, rwArg, rwRet, originalToNew, newToParent,
                   constructionStack, rwNulls, rwTrace>>
    /\ UNCHANGED <<input, callArg, ctl, opStack, callStack, uniqueDepth,
                   callStackMutex, stackIds, keptRefs, freed, usedNodes, perf,
                   lastCall, gcLog, refsAtEntry, everExhausted, lastLookup>>
    /\ UNCHANGED otherThanRewrite

\* a pop that leaves the context on the stack
PopConstructionContext_Keeps(stack) == stack

\* the construction stack without its top context
PopConstructionContext(stack) == SubSeq(stack, 1, Len(stack) - 1)

\* after the last child: PopConstructionContextAndGetExecutionSideEffectFlag
RewritePopConstructionContext ==
    /\ pc = "rw_children"
    /\ LET top == rwFrames[Len(rwFrames)]
           entry == constructionStack[Len(constructionStack)]
           marked == SetAllParentNodesNeedCycleCheck(top.new_tree,
                            needCycleCheck, newToParent)
       IN  /\ top.next > Len(newChildren[top.new_tree])
           /\ constructionStack' = PopConstructionContext(constructionStack)
           /\ IF entry.side_effect
              THEN /\ needCycleCheck' = marked
                   /\ rwLog' = [op |-> "side_effect", node |-> top.new_tree,
                                before |-> needCycleCheck, after |-> marked,
                                parents |-> newToParent]
              ELSE /\ rwLog' = NoWalk
                   /\ UNCHANGED needCycleCheck
    /\ pc' = "rw_apply"
    /\ UNCHANGED <<rwInput, rwArg, rwFrames, rwRet, originalToNew,
                   newToParent, newChildren, rwNulls, rwTrace>>
    /\ UNCHANGED <<input, callArg, ctl, opStack, callStack, uniqueDepth,
                   callStackMutex, stackIds, keptRefs, freed, usedNodes, perf,
                   lastCall, gcLog, refsAtEntry, everExhausted, lastLookup>>
    /\ UNCHANGED otherThanRewrite

\* the function signals a side effect on the entries of the construction
\* stack
SetSideEffectFlags(stack, side_effect) ==
    [i \in 1..Len(stack) |->
        [stack[i] EXCEPT !.side_effect = @ \/ side_effect]]

\* new_tree becomes the current value and the user function is interpreted:
\* it returns the current value or a node it has allocated, and it may
\* signal a side effect
RewriteApplyFunction ==
    /\ pc = "rw_apply"
    /\ \E returns \in {"current", "fresh"}, side_effect \in BOOLEAN :
        LET top == rwFrames[Len(rwFrames)]
            rest == SubSeq(rwFrames, 1, Len(rwFrames) - 1)
            current == [constructionStack EXCEPT
                            ![Len(constructionStack)].value = top.new_tree]
            fresh == FreshResult(top.new_tree)
        IN  /\ constructionStack' = SetSideEffectFlags(current, side_effect)
            /\ IF returns = "current"
               THEN /\ rwRet' = [node |-> top.new_tree, unique |-> FALSE]
                    /\ UNCHANGED <<needCycleCheck, newChildren>>
               ELSE /\ rwRet' = [node |-> fresh, unique |-> TRUE]
                    /\ needCycleCheck' = needCycleCheck @@ (fresh :> FALSE)
                    /\ newChildren' = newChildren @@ (fresh :> <<>>)
            /\ rwFrames' = rest
            /\ rwTrace' = [rwTrace EXCEPT !.applied = Append(@, top.tree)]
            /\ pc' = RewriteReturnTo(rest)
    /\ rwLog' = NoWalk
    /\ UNCHANGED <<rwInput, rwArg, originalToNew, newToParent, rwNulls>>
    /\ UNCHANGED <<input, callArg, ctl, opStack, callStack, uniqueDepth,
                   callStackMutex, stackIds, keptRefs, freed, usedNodes, perf,
                   lastCall, gcLog, refsAtEntry, everExhausted, lastLookup>>
    /\ UNCHANGED otherThanRewrite

\* the graphs that are rewritten: a leaf shared by two lists, a cycle, a
\* node that holds itself twice, a null child and an empty list, a shared
\* subtree, an empty associative array
RewriteGraphs ==
    { [children |-> <<<<2, 3>>, <<3>>, <<>>>>,
       kind |-> <<"list", "list", "immediate">>],
      [children |-> <<<<2>>, <<1>>, <<>>>>,
       kind |-> <<"assoc", "list", "immediate">>],
      [children |-> <<<<1, 1>>, <<>>, <<>>>>,
       kind |-> <<"list", "immediate", "immediate">>],
      [children |-> <<<<NullNode, 2>>, <<>>, <<>>>>,
       kind |-> <<"list", "list", "immediate">>],
      [children |-> <<<<2, 2>>, <<3>>, <<>>>>,
       kind |-> <<"list", "assoc", "immediate">>],
      [children |-> <<<<>>, <<>>, <<>>>>,
       kind |-> <<"assoc", "immediate", "immediate">>] }

RECURSIVE Reaches(_, _, _, _)
\* whether node `to' is reached from node `from' in at most `steps' edges
Reaches(children, from, to, steps) ==
    /\ steps > 0
    /\ \E i \in 1..Len(children[from]) :
        LET c == children[from][i]
        IN  c # NullNode /\ (c = to \/ Reaches(children, c, to, steps - 1))

\* the flags an original graph can carry: set on every node that reaches
\* itself, set or not on the others
CycleFlags(children) ==
    {flags \in [Nodes -> BOOLEAN] :
        \A n \in Nodes : Reaches(children, n, n, Cardinality(Nodes)) => flags[n]}

InitRewrite ==
    /\ InterpreterInHandler
    /\ pc = "rw_call"
    /\ opStack = <<1>>
    /\ usedNodes = 0
    /\ perf = NoPerf
    /\ ConstraintsUnused
    /\ ConcurrencyUnused
    /\ AssetsUnused
    /\ HelpersUnused
    /\ ConvertUnused
    /\ \E g \in RewriteGraphs, flags \in [Nodes -> BOOLEAN] :
        /\ flags \in CycleFlags(g.children)
        /\ rwInput = [root |-> 1, children |-> g.children, kind |-> g.kind,
                      flags |-> flags]
    /\ rwArg = [tree |-> 1, new_parent_node |-> NullNode]
    /\ rwFrames = <<>>
    /\ rwRet = NoReference
    /\ originalToNew = <<>>
    /\ newToParent = <<>>
    /\ newChildren = <<>>
    /\ needCycleCheck = <<>>
    /\ constructionStack = <<[target |-> NullNode, index |-> 0,
                              value |-> NullNode, side_effect |-> FALSE]>>
    /\ rwNulls = 0
    /\ rwLog = NoWalk
    /\ rwTrace = NoTrace

NextRewrite ==
    \/ RewriteByFunctionEnter
    \/ RewriteNextChild
    \/ RewriteChildReturned
    \/ RewritePopConstructionContext
    \/ RewriteApplyFunction

SpecRewrite == InitRewrite /\ [][NextRewrite]_vars

\* the rewrite goes on while a step of it is possible: the recursion is the
\* interpreter thread's own, and the user function returns
SpecRewriteFair == SpecRewrite /\ WF_vars(NextRewrite)

----------------------------------------------------------------------------
(* AssetManager::ValidateVersionAgainstAmalgam.  A string is a sequence of *)
(* characters; the version macros of the build are the fields of engine.   *)

\* longest version string that is validated
MaxVersionLen == 7

\* the characters version strings are made of
VersionChars == {"1", ".", "-"}

Digits == {"0", "1", "2", "3", "4", "5", "6", "7", "8", "9"}

\* the value of a decimal digit
DigitValue(c) ==
    CASE c = "0" -> 0 [] c = "1" -> 1 [] c = "2" -> 2 [] c = "3" -> 3
      [] c = "4" -> 4 [] c = "5" -> 5 [] c = "6" -> 6 [] c = "7" -> 7
      [] c = "8" -> 8 [] c = "9" -> 9

\* the position of the first delim in s, 0 if there is none
FirstIndexOf(s, delim) ==
    IF \E i \in 1..Len(s) : s[i] = delim
    THEN CHOOSE i \in 1..Len(s) :
            s[i] = delim /\ \A j \in 1..(i - 1) : s[j] # delim
    ELSE 0

RECURSIVE Split(_, _)
\* StringManipulation::Split: the pieces between the delimiters, read as
\* std::getline reads them (no piece after a final delimiter)
Split(s, delim) ==
    IF s = <<>> THEN <<>>
    ELSE LET i == FirstIndexOf(s, delim)
         IN  IF i = 0 THEN <<s>>
             ELSE <<SubSeq(s, 1, i - 1)>> \o Split(SubSeq(s, i + 1, Len(s)), delim)

RECURSIVE AtoiDigits(_, _)
\* the number read from the leading decimal digits of s, after acc
AtoiDigits(s, acc) ==
    IF s = <<>> \/ s[1] \notin Digits THEN acc
    ELSE AtoiDigits(Tail(s), 10 * acc + DigitValue(s[1]))

\* atoi on a field of a version: 0 when the field does not start with a digit
Atoi(s) == AtoiDigits(s, 0)

\* a build that checks no version: the disjunction of all fields being zero
DevBuild_AnyZero(e) ==
    e.suffix # <<>> \/ e.major = 0 \/ e.minor = 0 \/ e.patch = 0

\* "dev builds don't check versions"
DevBuild(e) ==
    e.suffix # <<>> \/ (e.major = 0 /\ e.minor = 0 /\ e.patch = 0)

\* a comparison that looks at the major version only
MoreRecent_MajorOnly(major, minor, patch, e) == major > e.major

\* the loaded version is more recent than the engine's
MoreRecent(major, minor, patch, e) ==
    \/ major > e.major
    \/ (major = e.major /\ minor > e.minor)
    \/ (major = e.major /\ minor = e.minor /\ patch > e.patch)

InvalidVersionNumber == "Invalid version number"

MoreRecentNotSupported == "Parsing Amalgam that is more recent than the current version is not supported"

OlderMajorNotSupported == "Parsing Amalgam that is older than the current major version is not supported"

\* the pair ValidateVersionAgainstAmalgam returns for a version string
ValidateVersionAgainstAmalgam(v, e) ==
    LET semver == Split(v, "-")
        version_split == Split(semver[1], ".")
    IN  IF Len(version_split) # 3
        THEN [error_message |-> InvalidVersionNumber, success |-> FALSE]
        ELSE LET major == Atoi(version_split[1])
                 minor == Atoi(version_split[2])
                 patch == Atoi(version_split[3])
             IN  IF DevBuild(e)
                 THEN [error_message |-> "", success |-> TRUE]
                 ELSE IF MoreRecent(major, minor, patch, e)
                 THEN [error_message |-> MoreRecentNotSupported,
                       success |-> FALSE]
                 ELSE IF e.major > major
                 THEN [error_message |-> OlderMajorNotSupported,
                       success |-> FALSE]
                 ELSE [error_message |-> "", success |-> TRUE]

\* the strings over VersionChars of a given length
VersionStringsOfLen(n) == [1..n -> VersionChars]

\* the version strings a metadata file can hold; the outcome for the empty
\* string rests with semver[0] of an empty vector and is left out
VersionStrings == UNION {VersionStringsOfLen(n) : n \in 1..MaxVersionLen}

\* the builds: every version of fields 0 to 2, release or with a suffix
EngineBuilds ==
    [major : 0..2, minor : 0..2, patch : 0..2, suffix : {<<>>, <<"d">>}]

\* LoadEntityFromResourcePath hands the version of the metadata over
HandlerValidateVersion ==
    /\ pc = "validate"
    /\ LET result == ValidateVersionAgainstAmalgam(version, engine)
       IN  validation' = [done |-> TRUE, success |-> result.success,
                          error_message |-> result.error_message]
    /\ pc' = "validated"
    /\ UNCHANGED <<version, engine, loadVars, createVars>>
    /\ UNCHANGED <<interpreterFrame, otherThanAsset>>

InitVersion ==
    /\ InterpreterInHandler
    /\ pc = "validate"
    /\ opStack = <<1>>
    /\ usedNodes = 0
    /\ perf = NoPerf
    /\ ConstraintsUnused
    /\ ConcurrencyUnused
    /\ RewriteUnused
    /\ HelpersUnused
    /\ ConvertUnused
    /\ version \in VersionStrings
    /\ engine \in EngineBuilds
    /\ validation = NoValidation
    /\ LoadUnused
    /\ CreateUnused

NextVersion == HandlerValidateVersion

SpecVersion == InitVersion /\ [][NextVersion]_vars

----------------------------------------------------------------------------
(* AssetManager::LoadEntityFromResourcePath.  The files are numbered; the  *)
(* entity built from file f is entity f.  files says of each file whether   *)
(* LoadResourcePath reads it, which version its metadata holds and which    *)
(* files its directory holds.                                               *)

\* the build that loads the entities
ReleaseBuild == [major |-> 1, minor |-> 1, patch |-> 1, suffix |-> <<>>]

\* the versions the metadata of a file can hold: none, the engine's, a newer
MetadataVersions ==
    {NoVersion, <<"1", ".", "1", ".", "1">>, <<"1", "1", ".", "1", ".", "1">>}

FILE_EXTENSION_AMALGAM == "amlg"

FILE_EXTENSION_COMPRESSED_AMALGAM_CODE == "caml"

RECURSIVE EntityAndContained(_, _)
\* an entity and the entities it deeply contains
EntityAndContained(e, contained) ==
    {e} \cup UNION {EntityAndContained(contained[e][i], contained) :
                        i \in 1..Len(contained[e])}

\* delete entity: the destructor destroys the contained entities as well
DeleteEntity(e, live, contained) == live \ EntityAndContained(e, contained)

\* a test of the child's load that never sees a failure
ContainedLoadFailed_Never(status) == FALSE

\* the test made after the load of a contained entity
ContainedLoadFailed(status) == ~status.loaded

\* what LoadResourcePath finds at the metadata file of an entity: nothing it
\* can read, an assoc without a rand_seed, an assoc with one
MetadataFiles == {"unreadable", "without_seed", "with_seed"}

\* metadata_status.loaded after LoadResourcePath of the metadata file
MetadataLoaded(metadata) == metadata # "unreadable"

\* the name of the entity of file f
EntityName(f) == ToString(f)

\* the seed the caller of the outermost load passes in
CallerRandomSeed == <<"default_random_seed">>

\* Entity::CreateRandomStreamFromStringAndRand: a seed made of the random
\* state of the entity and the name
CreateRandomStreamFromStringAndRand(state, name) == state \o <<"/", name>>

\* the rand_seed the metadata of file f holds
MetadataSeed(f) == <<"rand_seed", EntityName(f)>>

\* default_random_seed of the call that loads file f
DefaultRandomSeedOf(f, frames, state) ==
    IF frames = <<>> THEN CallerRandomSeed
    ELSE CreateRandomStreamFromStringAndRand(
            state[frames[Len(frames)].entity], EntityName(f))

\* a load whose entity has no random state when the metadata holds no seed
RandomStateAfterMetadata_Unset(default_random_seed, metadata, f) ==
    IF MetadataLoaded(metadata) /\ metadata = "with_seed"
    THEN MetadataSeed(f) ELSE <<>>

\* the random state of the entity once the metadata file has been handled
RandomStateAfterMetadata(default_random_seed, metadata, f) ==
    IF MetadataLoaded(metadata) /\ metadata = "with_seed"
    THEN MetadataSeed(f) ELSE default_random_seed

\* where control goes when a LoadEntityFromResourcePath call returns
LoadReturnTo(frames) == IF frames = <<>> THEN "load_done" ELSE "load_return"

\* the call up to the loop over the contained entities: the entity is
\* allocated, its code is loaded, the version of its metadata is validated
LoadEntityFromResourcePathEnter ==
    /\ pc = "load_call"
    /\ LET f == loadArg
           live == liveEntities \cup {f}
           contained == containedOf @@ (f :> <<>>)
           load_contained_entities ==
                IF loadFrames = <<>> THEN files.load_contained_entities
                ELSE TRUE
           result == ValidateVersionAgainstAmalgam(files.version[f], engine)
           default_random_seed ==
                DefaultRandomSeedOf(f, loadFrames, randomState)
       IN  IF ~files.loads[f]
           THEN /\ loadStatus' = [loaded |-> FALSE,
                                  message |-> "could not load",
                                  version |-> <<>>]
                /\ liveEntities' = DeleteEntity(f, live, contained)
                /\ destroyed' = destroyed \cup EntityAndContained(f, contained)
                /\ loadRet' = 0
                /\ pc' = LoadReturnTo(loadFrames)
                /\ UNCHANGED <<containedOf, loadFrames, version, validation,
                               randomState>>
           ELSE IF files.file_type = FILE_EXTENSION_COMPRESSED_AMALGAM_CODE
           THEN /\ liveEntities' = live
                /\ containedOf' = contained
                /\ loadRet' = f
                /\ randomState' = randomState @@ (f :> default_random_seed)
                /\ pc' = LoadReturnTo(loadFrames)
                /\ UNCHANGED <<loadStatus, destroyed, loadFrames, version,
                               validation>>
           ELSE IF /\ MetadataLoaded(files.metadata[f])
                   /\ files.version[f] # NoVersion
                   /\ ~result.success
           THEN /\ version' = files.version[f]
                /\ randomState' = randomState @@ (f :>
                        RandomStateAfterMetadata(default_random_seed,
                                                 files.metadata[f], f))
                /\ validation' = [done |-> TRUE, success |-> FALSE,
                                  error_message |-> result.error_message]
                /\ loadStatus' = [loaded |-> FALSE,
                                  message |-> result.error_message,
                                  version |-> files.version[f]]
                /\ liveEntities' = DeleteEntity(f, live, contained)
                /\ destroyed' = destroyed \cup EntityAndContained(f, contained)
                /\ loadRet' = 0
                /\ pc' = LoadReturnTo(loadFrames)
                /\ UNCHANGED <<containedOf, loadFrames>>
           ELSE /\ IF MetadataLoaded(files.metadata[f])
                        /\ files.version[f] # NoVersion
                   THEN /\ version' = files.version[f]
                        /\ validation' = [done |-> TRUE, success |-> TRUE,
                                          error_message |-> ""]
                   ELSE UNCHANGED <<version, validation>>
                /\ randomState' = randomState @@ (f :>
                        RandomStateAfterMetadata(default_random_seed,
                                                 files.metadata[f], f))
                /\ liveEntities' = live
                /\ containedOf' = contained
                /\ IF load_contained_entities
                   THEN /\ loadFrames' =
                            Append(loadFrames, [entity |-> f, next |-> 1])
                        /\ pc' = "load_children"
                        /\ UNCHANGED loadRet
                   ELSE /\ loadRet' = f
                        /\ pc' = LoadReturnTo(loadFrames)
                        /\ UNCHANGED loadFrames
                /\ UNCHANGED <<loadStatus, destroyed>>
    /\ UNCHANGED <<files, loadArg, engine>>
    /\ UNCHANGED <<createVars, interpreterFrame, otherThanAsset>>

\* the loop over the files of the directory: the next contained entity is
\* loaded
LoadContainedEntity ==
    /\ pc = "load_children"
    /\ LET top == loadFrames[Len(loadFrames)]
       IN  /\ top.next <= Len(files.children[top.entity])
           /\ loadArg' = files.children[top.entity][top.next]
    /\ pc' = "load_call"
    /\ UNCHANGED <<files, loadFrames, liveEntities, containedOf, destroyed,
                   loadStatus, loadRet, randomState, version, engine,
                   validation>>
    /\ UNCHANGED <<createVars, interpreterFrame, otherThanAsset>>

\* the load of a contained entity has returned: on a failure new_entity is
\* deleted and null returned, else the entity is added to new_entity
LoadContainedEntityReturned ==
    /\ pc = "load_return"
    /\ loadFrames # <<>>
    /\ LET top == loadFrames[Len(loadFrames)]
           rest == SubSeq(loadFrames, 1, Len(loadFrames) - 1)
       IN  IF ContainedLoadFailed(loadStatus)
           THEN /\ liveEntities' =
                    DeleteEntity(top.entity, liveEntities, containedOf)
                /\ destroyed' =
                    destroyed \cup EntityAndContained(top.entity, containedOf)
                /\ loadRet' = 0
                /\ loadFrames' = rest
                /\ pc' = LoadReturnTo(rest)
                /\ UNCHANGED containedOf
           ELSE /\ containedOf' =
                    [containedOf EXCEPT ![top.entity] = Append(@, loadRet)]
                /\ loadFrames' =
                    [loadFrames EXCEPT ![Len(loadFrames)].next = @ + 1]
                /\ pc' = "load_children"
                /\ UNCHANGED <<liveEntities, destroyed, loadRet>>
    /\ UNCHANGED <<files, loadArg, loadStatus, randomState, version, engine,
                   validation>>
    /\ UNCHANGED <<createVars, interpreterFrame, otherThanAsset>>

\* after the last file of the directory new_entity is returned
LoadEntityFromResourcePathReturn ==
    /\ pc = "load_children"
    /\ LET top == loadFrames[Len(loadFrames)]
           rest == SubSeq(loadFrames, 1, Len(loadFrames) - 1)
       IN  /\ top.next > Len(files.children[top.entity])
           /\ loadRet' = top.entity
           /\ loadFrames' = rest
           /\ pc' = LoadReturnTo(rest)
    /\ UNCHANGED <<files, loadArg, liveEntities, containedOf, destroyed,
                   loadStatus, randomState, version, engine, validation>>
    /\ UNCHANGED <<createVars, interpreterFrame, otherThanAsset>>

\* the directories that are loaded: two entities in one directory, a chain
\* of three, one contained entity, none
FileTrees ==
    { <<<<2, 3>>, <<>>, <<>>>>, <<<<2>>, <<3>>, <<>>>>,
      <<<<2>>, <<>>, <<>>>>, <<<<>>, <<>>, <<>>>> }

\* the files of a load: a metadata file that is not read holds no version
LoadedFiles ==
    {fs \in [children : FileTrees, loads : [Nodes -> BOOLEAN],
             metadata : [Nodes -> MetadataFiles],
             version : [Nodes -> MetadataVersions],
             file_type : {FILE_EXTENSION_AMALGAM,
                          FILE_EXTENSION_COMPRESSED_AMALGAM_CODE},
             load_contained_entities : BOOLEAN] :
        \A f \in Nodes :
            ~MetadataLoaded(fs.metadata[f]) => fs.version[f] = NoVersion}

InitLoad ==
    /\ InterpreterInHandler
    /\ pc = "load_call"
    /\ opStack = <<1>>
    /\ usedNodes = 0
    /\ perf = NoPerf
    /\ ConstraintsUnused
    /\ ConcurrencyUnused
    /\ RewriteUnused
    /\ HelpersUnused
    /\ ConvertUnused
    /\ version = NoVersion
    /\ engine = ReleaseBuild
    /\ validation = NoValidation
    /\ files \in LoadedFiles
    /\ loadArg = 1
    /\ loadFrames = <<>>
    /\ liveEntities = {}
    /\ containedOf = <<>>
    /\ destroyed = {}
    /\ loadStatus = StatusLoaded
    /\ loadRet = 0
    /\ randomState = <<>>
    /\ CreateUnused

NextLoad ==
    \/ LoadEntityFromResourcePathEnter
    \/ LoadContainedEntity
    \/ LoadContainedEntityReturned
    \/ LoadEntityFromResourcePathReturn

SpecLoad == InitLoad /\ [][NextLoad]_vars

----------------------------------------------------------------------------
(* AssetManager::CreateEntity.  The containers of the entity are listed     *)
(* from its own container outwards; a container is persistent when it has a *)
(* path in persistentEntities.                                              *)

\* the position of the last c in s, 0 if there is none
LastIndexOf(s, c) ==
    IF \E i \in 1..Len(s) : s[i] = c
    THEN CHOOSE i \in 1..Len(s) :
            s[i] = c /\ \A j \in (i + 1)..Len(s) : s[j] # c
    ELSE 0

\* Platform_SeparatePathFileExtension: the path up to and with the last
\* slash, the file name up to its last dot, and the extension after it
SeparatePathFileExtension(combined) ==
    LET slash == LastIndexOf(combined, "/")
        name == SubSeq(combined, slash + 1, Len(combined))
        dot == LastIndexOf(name, ".")
    IN  [path |-> IF slash = 0 THEN <<".", "/">> ELSE SubSeq(combined, 1, slash),
         base_filename |-> IF dot = 0 THEN name ELSE SubSeq(name, 1, dot - 1),
         extension |-> IF dot = 0 THEN <<>> ELSE SubSeq(name, dot + 1, Len(name))]

\* the characters a file name keeps as they are
SafeChars == {"a", "b", "c", "d", "e"}

RECURSIVE SafeEscapeFilename(_)
\* FilenameEscapeProcessor::SafeEscapeFilename: a character that is not safe
\* is written as the escape character and a letter
SafeEscapeFilename(id) ==
    IF id = <<>> THEN <<>>
    ELSE (IF id[1] \in SafeChars THEN <<id[1]>>
          ELSE IF id[1] = "/" THEN <<"_", "s">>
          ELSE IF id[1] = "." THEN <<"_", "p">>
          ELSE <<"_", "_">>) \o SafeEscapeFilename(Tail(id))

\* an id suffix that carries the extension of the file of the container
IdSuffix_OfContainer(escaped_entity_id, extension, default_extension) ==
    <<"/">> \o escaped_entity_id \o <<".">> \o extension

\* id_suffix: the file name of the entity below the directory
IdSuffix(escaped_entity_id, extension, default_extension) ==
    <<"/">> \o escaped_entity_id \o <<".">> \o default_extension

NoPath == <<>>

\* the early outs and cur = entity->GetContainer()
CreateEntityBegin ==
    /\ pc = "create"
    /\ IF /\ ~createArg.other_persistent
          /\ \A i \in 1..Len(createArg.containers) :
                createArg.containers[i].path = NoPath
       THEN pc' = "created" /\ createCur' = 0
       ELSE IF createArg.containers = <<>>
       THEN pc' = "created" /\ createCur' = 0
       ELSE pc' = "create_loop" /\ createCur' = 1
    /\ traversalPath' = <<>>
    /\ UNCHANGED <<createArg, defaultEntityExtension, stored>>
    /\ UNCHANGED <<version, engine, validation, loadVars>>
    /\ UNCHANGED <<interpreterFrame, otherThanAsset>>

\* one turn of the loop: the entity is stored below cur if cur is
\* persistent and its directory can be created, then cur moves outwards
CreateEntityVisitContainer ==
    /\ pc = "create_loop"
    /\ LET cur == createArg.containers[createCur]
           parts == SeparatePathFileExtension(cur.path)
           new_path == parts.path \o parts.base_filename \o traversalPath
           id_suffix == IdSuffix(SafeEscapeFilename(createArg.id),
                                 parts.extension, defaultEntityExtension)
       IN  /\ IF cur.path # NoPath
              THEN \E ec \in BOOLEAN :
                    stored' = IF ec THEN stored
                              ELSE Append(stored,
                                    [container |-> createCur,
                                     resource_path |-> new_path \o id_suffix,
                                     file_type |-> parts.extension])
              ELSE UNCHANGED stored
           /\ IF createCur = Len(createArg.containers)
              THEN /\ pc' = "created"
                   /\ UNCHANGED <<createCur, traversalPath>>
              ELSE /\ traversalPath' =
                        <<"/">> \o SafeEscapeFilename(cur.id) \o traversalPath
                   /\ createCur' = createCur + 1
                   /\ pc' = "create_loop"
    /\ UNCHANGED <<createArg, defaultEntityExtension>>
    /\ UNCHANGED <<version, engine, validation, loadVars>>
    /\ UNCHANGED <<interpreterFrame, otherThanAsset>>

\* the ids of entities
EntityIds == {<<"e">>, <<"a", "/", "b">>}

\* the paths persistent entities are stored at
PersistentPaths ==
    { <<"d", "/", "c", ".", "a", "m", "l", "g">>,
      <<"d", ".", "e", "/", "c", ".", "j", "s", "o", "n">> }

\* the extensions defaultEntityExtension is set to
EntityExtensions == {<<"a", "m", "l", "g">>, <<"j", "s", "o", "n">>}

\* the containers of an entity, persistent or not
Containers == [id : EntityIds, path : {NoPath} \cup PersistentPaths]

InitCreate ==
    /\ InterpreterInHandler
    /\ pc = "create"
    /\ opStack = <<1>>
    /\ usedNodes = 0
    /\ perf = NoPerf
    /\ ConstraintsUnused
    /\ ConcurrencyUnused
    /\ RewriteUnused
    /\ HelpersUnused
    /\ ConvertUnused
    /\ version = NoVersion
    /\ engine = NoEngine
    /\ validation = NoValidation
    /\ LoadUnused
    /\ createArg \in [id : EntityIds,
                      containers : {<<>>} \cup [1..1 -> Containers]
                                        \cup [1..2 -> Containers],
                      other_persistent : BOOLEAN]
    /\ defaultEntityExtension \in EntityExtensions
    /\ createCur = 0
    /\ traversalPath = <<>>
    /\ stored = <<>>

NextCreate ==
    \/ CreateEntityBegin
    \/ CreateEntityVisitContainer

SpecCreate == InitCreate /\ [][NextCreate]_vars

----------------------------------------------------------------------------
(* InterpretNodeIntoDestinationEntity: the id path n evaluates to is       *)
(* traversed from curEntity, and the handler is told where to place an     *)
(* entity.                                                                 *)

\* the entity contained by container under id, 0 when there is none
ContainedEntity(arg, container, id) ==
    IF \E e \in DOMAIN arg.id : arg.container[e] = container /\ arg.id[e] = id
    THEN CHOOSE e \in DOMAIN arg.id :
             arg.container[e] = container /\ arg.id[e] = id
    ELSE 0

\* the entity the ids of path lead to from entity from, 0 when an id of the
\* path names no contained entity
RECURSIVE EntityAtPath(_, _, _)
EntityAtPath(arg, from, path) ==
    IF from = 0 \/ path = <<>>
    THEN from
    ELSE EntityAtPath(arg, ContainedEntity(arg, from, Head(path)), Tail(path))

\* the results TraverseToEntityReferenceAndContainerViaEvaluableNodeIDPath
\* can give: the entity at the path and its container, and in
\* new_entity_id the last id of the path when the container exists
TraverseToEntityReferenceAndContainer(arg, from, path) ==
    IF path = <<>>
    THEN {[entity |-> from, container |-> arg.container[from],
           new_entity_id |-> ""]}
    ELSE LET container ==
                 EntityAtPath(arg, from, SubSeq(path, 1, Len(path) - 1))
             last == path[Len(path)]
         IN  IF container = 0
             THEN {NoTraversal}
             ELSE LET entity == ContainedEntity(arg, container, last)
                  IN  IF entity = 0
                      THEN {[entity |-> 0, container |-> container,
                             new_entity_id |-> last]}
                      ELSE {[entity |-> entity, container |-> container,
                             new_entity_id |-> id] : id \in {"", last}}

\* the pair of an entity that exists and the id the traversal left
DestinationOf_KeepsId(t) ==
    IF t.entity # 0
    THEN [reference |-> t.entity, id |-> t.new_entity_id]
    ELSE [reference |-> t.container, id |-> t.new_entity_id]

\* the pair InterpretNodeIntoDestinationEntity returns
DestinationOf(t) ==
    IF t.entity # 0
    THEN [reference |-> t.entity, id |-> ""]
    ELSE [reference |-> t.container, id |-> t.new_entity_id]

\* the ids an id path is made of
PathIds == {"a", "b", "c"}

\* the id paths n evaluates to
IdPaths == {<<>>} \cup [1..1 -> PathIds] \cup [1..2 -> PathIds]

\* n is interpreted into an id path, and the path is traversed
DestinationTraverse ==
    /\ pc = "destination"
    /\ \E path \in IdPaths :
           /\ destArg' = [destArg EXCEPT !.path = path]
           /\ destTraversal' \in
                  TraverseToEntityReferenceAndContainer(destArg, destArg.cur,
                                                        path)
    /\ pc' = "destination_found"
    /\ UNCHANGED <<destRet, immediateVars, interpreterFrame, otherThanHelper>>

\* the id path is freed and the pair is returned
DestinationReturn ==
    /\ pc = "destination_found"
    /\ destRet' = DestinationOf(destTraversal)
    /\ pc' = "destination_done"
    /\ UNCHANGED <<destArg, destTraversal, immediateVars, interpreterFrame,
                   otherThanHelper>>

\* the containment of three entities: entity 1 contains entity 2 as "a", and
\* entity 3 is "b" in entity 2 or in entity 1
EntityTrees ==
    {[container |-> <<0, 1, c>>, id |-> <<"", "a", "b">>] : c \in {1, 2}}

InitDestination ==
    /\ InterpreterInHandler
    /\ pc = "destination"
    /\ opStack = <<1>>
    /\ usedNodes = 0
    /\ perf = NoPerf
    /\ ConstraintsUnused
    /\ ConcurrencyUnused
    /\ RewriteUnused
    /\ AssetsUnused
    /\ ImmediatesUnused
    /\ ConvertUnused
    /\ \E tree \in EntityTrees, cur \in 1..3 :
           destArg = [container |-> tree.container, id |-> tree.id,
                      cur |-> cur, path |-> <<>>]
    /\ destTraversal = NoTraversal
    /\ destRet = NoDestination

NextDestination ==
    \/ DestinationTraverse
    \/ DestinationReturn

SpecDestination == InitDestination /\ [][NextDestination]_vars

----------------------------------------------------------------------------
(* The helpers that interpret a node into a unique number or string node,  *)
(* or into a string ID.  A node has a kind, the ID of the string its value *)
(* is written as, and metadata; a string node holds one reference of the   *)
(* intern pool to its ID, a node of another kind holds none.  An ID is     *)
(* interned while its reference count is positive.                         *)

\* the IDs the strings of the model have when they are interned
StringIds == {1, 2}

\* the kinds of node: ENT_NUMBER, ENT_STRING and every other type
NodeKinds == {"number", "string", "other"}

\* the nodes the manager can allocate
NodeIds == {1, 2, 3, 4}

\* string_intern_pool.CreateStringReference
CreateStringReference(p, sid) ==
    IF sid = NOT_A_STRING_ID THEN p ELSE [p EXCEPT ![sid] = @ + 1]

\* string_intern_pool.DestroyStringReference
DestroyStringReference(p, sid) ==
    IF sid = NOT_A_STRING_ID THEN p ELSE [p EXCEPT ![sid] = @ - 1]

\* string_intern_pool.GetIDFromString of the string that has ID sid
GetIDFromString(p, sid) ==
    IF sid # NOT_A_STRING_ID /\ p[sid] > 0 THEN sid ELSE NOT_A_STRING_ID

\* the node AllocNode returns
AllocNode(h) == CHOOSE node \in NodeIds : node \notin DOMAIN h

\* the heap with one more node
WithNode(h, node, record) ==
    [m \in DOMAIN h \cup {node} |-> IF m = node THEN record ELSE h[m]]

\* the ID EvaluableNode::ToStringIDWithReference(node) returns; the pool
\* after it is CreateStringReference of that ID
ToStringID(h, node) ==
    IF node = 0 THEN NOT_A_STRING_ID ELSE h[node].sid

\* EvaluableNode::ToStringIDIfExists(node)
ToStringIDIfExists(h, p, node) ==
    IF node = 0
    THEN NOT_A_STRING_ID
    ELSE IF h[node].kind = "string"
         THEN h[node].sid
         ELSE GetIDFromString(p, h[node].sid)

\* the heap after FreeNodeTree(node)
HeapAfterFree(h, node) ==
    IF node = 0 THEN h ELSE [m \in DOMAIN h \ {node} |-> h[m]]

\* the pool after FreeNodeTree(node): a string node releases its reference
PoolAfterFree(h, p, node) ==
    IF node # 0 /\ h[node].kind = "string"
    THEN DestroyStringReference(p, h[node].sid)
    ELSE p

\* the pool after FreeNodeTreeIfPossible(result)
PoolAfterFreeIfPossible(h, p, result) ==
    IF result.immediate
    THEN IF result.type = "string_id"
         THEN DestroyStringReference(p, result.sid)
         ELSE p
    ELSE IF result.unique THEN PoolAfterFree(h, p, result.node) ELSE p

\* the heap after FreeNodeTreeIfPossible(result)
HeapAfterFreeIfPossible(h, result) ==
    IF ~result.immediate /\ result.unique
    THEN HeapAfterFree(h, result.node)
    ELSE h

\* a node whose type stays as it is
SetType_Keeps(record, kind, sid) == record

\* the node after SetType(kind): its value is converted, and sid is the ID
\* of the string the converted value is written as
SetType(record, kind, sid) ==
    [record EXCEPT !.kind = kind, !.sid = sid]

\* the pool after SetType(kind) of a node: a node that becomes a string
\* takes a reference, a string that becomes something else releases its own
PoolAfterSetType(p, record, kind, sid) ==
    LET released == IF record.kind = "string"
                    THEN DestroyStringReference(p, record.sid)
                    ELSE p
    IN  IF kind = "string"
        THEN CreateStringReference(released, sid)
        ELSE released

\* the node after ClearMetadata
ClearMetadata(record) == [record EXCEPT !.metadata = FALSE]

\* a node as it is allocated with a value
NewNode(kind, sid) ==
    [kind |-> kind, sid |-> sid, metadata |-> FALSE, idempotent |-> TRUE]

\* the nodes a program can hold
NodeRecords ==
    [kind : NodeKinds, sid : StringIds, metadata : BOOLEAN,
     idempotent : BOOLEAN]

\* the results InterpretNode can give for a node that is not idempotent:
\* null, a node something else refers to, or a node no one else refers to
NodeResults(h) ==
    {[immediate |-> FALSE, node |-> 0, unique |-> u, type |-> "",
      sid |-> NOT_A_STRING_ID] : u \in BOOLEAN}
    \cup {[immediate |-> FALSE, node |-> node, unique |-> FALSE, type |-> "",
           sid |-> NOT_A_STRING_ID] : node \in DOMAIN h}
    \cup {[immediate |-> FALSE, node |-> AllocNode(h), unique |-> TRUE,
           type |-> "", sid |-> NOT_A_STRING_ID]}

\* the immediate values InterpretNodeForImmediateUse can give when an
\* immediate result is asked for
ImmediateResults ==
    {[immediate |-> TRUE, node |-> 0, unique |-> TRUE, type |-> type,
      sid |-> sid] : type \in {"string_id", "number"}, sid \in StringIds}
    \cup {[immediate |-> TRUE, node |-> 0, unique |-> TRUE, type |-> "null",
           sid |-> NOT_A_STRING_ID]}

\* whether the helper asks for an immediate result
AsksImmediate(fn) == fn \in {"StringIDValueIfExists", "StringIDValueWithReference"}

\* n is interpreted: an immediate string ID carries a reference of its own,
\* and so does a string node that is allocated for the result
HelperInterpretNode ==
    /\ pc = "helper_interpret"
    /\ \E result \in NodeResults(heap)
                      \cup (IF AsksImmediate(helperCall.fn)
                            THEN ImmediateResults ELSE {}) :
           /\ intermediate' = result
           /\ IF result.immediate
              THEN /\ heap' = heap
                   /\ pool' = IF result.type = "string_id"
                              THEN CreateStringReference(pool, result.sid)
                              ELSE pool
                   /\ helperLog' = [helperLog EXCEPT !.interpreted = TRUE]
              ELSE IF result.node \in DOMAIN heap \/ result.node = 0
                   THEN /\ UNCHANGED <<heap, pool>>
                        /\ helperLog' =
                               [helperLog EXCEPT
                                    !.interpreted = TRUE,
                                    !.result = IF result.node = 0
                                               THEN NoRecord
                                               ELSE heap[result.node]]
                   ELSE \E record \in NodeRecords :
                            /\ heap' = WithNode(heap, result.node, record)
                            /\ helperLog' =
                                   [helperLog EXCEPT !.interpreted = TRUE,
                                                     !.result = record]
                            /\ pool' = IF record.kind = "string"
                                       THEN CreateStringReference(pool,
                                                                  record.sid)
                                       ELSE pool
    /\ pc' = "helper_interpreted"
    /\ UNCHANGED <<helperCall, helperRet, destinationVars,
                   interpreterFrame, otherThanHelper>>

\* whether the result of InterpretNode can be returned as it is: a result
\* that is not null whether or not something else refers to it
ReusesResult_NotNull(result) == result.node # 0

\* whether the result of InterpretNode can be returned as it is
ReusesResult(result) == ~(result.node = 0 \/ ~result.unique)

\* the helper returns a node
ReturnNode(node) ==
    helperRet' = [node |-> node, unique |-> TRUE, sid |-> NOT_A_STRING_ID]

\* the helper returns a string ID
ReturnStringID(sid) ==
    helperRet' = [node |-> 0, unique |-> FALSE, sid |-> sid]

\* InterpretNodeIntoUniqueNumberValueEvaluableNode up to InterpretNode: a
\* null or idempotent n is converted without being interpreted
InterpretNodeIntoUniqueNumberValueEvaluableNode ==
    /\ pc = "helper"
    /\ helperCall.fn = "UniqueNumberValue"
    /\ LET n == helperCall.n
       IN  IF n = 0 \/ heap[n].idempotent
           THEN /\ \E sid \in StringIds :
                       heap' = WithNode(heap, AllocNode(heap),
                                        NewNode("number", sid))
                /\ ReturnNode(AllocNode(heap))
                /\ pc' = "helper_done"
           ELSE /\ pc' = "helper_interpret"
                /\ UNCHANGED <<heap, helperRet>>
    /\ UNCHANGED <<helperCall, pool, intermediate, helperLog,
                   destinationVars, interpreterFrame, otherThanHelper>>

\* InterpretNodeIntoUniqueNumberValueEvaluableNode after InterpretNode
UniqueNumberValueOfResult ==
    /\ pc = "helper_interpreted"
    /\ helperCall.fn = "UniqueNumberValue"
    /\ LET result == intermediate
       IN  \E sid \in StringIds :
               IF ~ReusesResult(result)
               THEN /\ heap' = WithNode(heap, AllocNode(heap),
                                        NewNode("number", sid))
                    /\ ReturnNode(AllocNode(heap))
                    /\ pool' = pool
               ELSE LET cleared == ClearMetadata(heap[result.node])
                    IN  /\ IF cleared.kind # "number"
                           THEN /\ heap' = [heap EXCEPT ![result.node] =
                                               SetType(cleared, "number", sid)]
                                /\ pool' = PoolAfterSetType(pool, cleared,
                                                            "number", sid)
                           ELSE /\ heap' = [heap EXCEPT ![result.node] =
                                               cleared]
                                /\ pool' = pool
                        /\ ReturnNode(result.node)
    /\ pc' = "helper_done"
    /\ UNCHANGED <<helperCall, intermediate, helperLog, destinationVars,
                   interpreterFrame, otherThanHelper>>

\* InterpretNodeIntoUniqueStringIDValueEvaluableNode up to InterpretNode: a
\* null, idempotent, string or number n is converted without being
\* interpreted
InterpretNodeIntoUniqueStringIDValueEvaluableNode ==
    /\ pc = "helper"
    /\ helperCall.fn = "UniqueStringIDValue"
    /\ LET n == helperCall.n
       IN  IF n = 0 \/ heap[n].idempotent
              \/ heap[n].kind = "string" \/ heap[n].kind = "number"
           THEN /\ heap' = WithNode(heap, AllocNode(heap),
                                    NewNode("string", ToStringID(heap, n)))
                /\ pool' = CreateStringReference(pool, ToStringID(heap, n))
                /\ ReturnNode(AllocNode(heap))
                /\ pc' = "helper_done"
           ELSE /\ pc' = "helper_interpret"
                /\ UNCHANGED <<heap, pool, helperRet>>
    /\ UNCHANGED <<helperCall, intermediate, helperLog, destinationVars,
                   interpreterFrame, otherThanHelper>>

\* InterpretNodeIntoUniqueStringIDValueEvaluableNode after InterpretNode
UniqueStringIDValueOfResult ==
    /\ pc = "helper_interpreted"
    /\ helperCall.fn = "UniqueStringIDValue"
    /\ LET result == intermediate
       IN  IF ~ReusesResult(result)
           THEN LET sid == ToStringID(heap, result.node)
                IN  /\ heap' = WithNode(heap, AllocNode(heap),
                                        NewNode("string", sid))
                    /\ pool' = CreateStringReference(pool, sid)
                    /\ ReturnNode(AllocNode(heap))
           ELSE LET cleared == ClearMetadata(heap[result.node])
                IN  /\ IF cleared.kind # "string"
                       THEN /\ heap' = [heap EXCEPT ![result.node] =
                                   SetType(cleared, "string", cleared.sid)]
                            /\ pool' = PoolAfterSetType(pool, cleared,
                                                        "string", cleared.sid)
                       ELSE /\ heap' = [heap EXCEPT ![result.node] = cleared]
                            /\ pool' = pool
                    /\ ReturnNode(result.node)
    /\ pc' = "helper_done"
    /\ UNCHANGED <<helperCall, intermediate, helperLog, destinationVars,
                   interpreterFrame, otherThanHelper>>

\* InterpretNodeIntoStringIDValueIfExists up to InterpretNodeForImmediateUse:
\* the ID of a string node is returned as it is
InterpretNodeIntoStringIDValueIfExists ==
    /\ pc = "helper"
    /\ helperCall.fn = "StringIDValueIfExists"
    /\ LET n == helperCall.n
       IN  IF n # 0 /\ heap[n].kind = "string"
           THEN /\ ReturnStringID(heap[n].sid)
                /\ pc' = "helper_done"
           ELSE /\ pc' = "helper_interpret"
                /\ UNCHANGED helperRet
    /\ UNCHANGED <<helperCall, pool, heap, intermediate, helperLog,
                   destinationVars, interpreterFrame, otherThanHelper>>

\* result_value.GetValueAsStringIDIfExists()
GetValueAsStringIDIfExists(h, p, result) ==
    IF result.immediate
    THEN IF result.type = "string_id"
         THEN result.sid
         ELSE GetIDFromString(p, result.sid)
    ELSE ToStringIDIfExists(h, p, result.node)

\* InterpretNodeIntoStringIDValueIfExists after InterpretNodeForImmediateUse
StringIDValueIfExistsOfResult ==
    /\ pc = "helper_interpreted"
    /\ helperCall.fn = "StringIDValueIfExists"
    /\ ReturnStringID(GetValueAsStringIDIfExists(heap, pool, intermediate))
    /\ heap' = HeapAfterFreeIfPossible(heap, intermediate)
    /\ pool' = PoolAfterFreeIfPossible(heap, pool, intermediate)
    /\ pc' = "helper_done"
    /\ UNCHANGED <<helperCall, intermediate, helperLog, destinationVars,
                   interpreterFrame, otherThanHelper>>

\* InterpretNodeIntoStringIDValueWithReference up to
\* InterpretNodeForImmediateUse: a string node gives a new reference to its ID
InterpretNodeIntoStringIDValueWithReference ==
    /\ pc = "helper"
    /\ helperCall.fn = "StringIDValueWithReference"
    /\ LET n == helperCall.n
       IN  IF n # 0 /\ heap[n].kind = "string"
           THEN /\ ReturnStringID(heap[n].sid)
                /\ pool' = CreateStringReference(pool, heap[n].sid)
                /\ pc' = "helper_done"
           ELSE /\ pc' = "helper_interpret"
                /\ UNCHANGED <<pool, helperRet>>
    /\ UNCHANGED <<helperCall, heap, intermediate, helperLog,
                   destinationVars, interpreterFrame, otherThanHelper>>

\* the pool when every immediate value is given a new reference
PoolOfImmediateValue_NewReference(p, result) ==
    CreateStringReference(p, result.sid)

\* the pool after the ID of an immediate value is taken with a reference:
\* the reference of an immediate string ID is reused
PoolOfImmediateValue(p, result) ==
    IF result.type = "string_id"
    THEN p
    ELSE CreateStringReference(p, result.sid)

\* InterpretNodeIntoStringIDValueWithReference after
\* InterpretNodeForImmediateUse
StringIDValueWithReferenceOfResult ==
    /\ pc = "helper_interpreted"
    /\ helperCall.fn = "StringIDValueWithReference"
    /\ LET result == intermediate
       IN  IF result.immediate
           THEN /\ ReturnStringID(result.sid)
                /\ pool' = PoolOfImmediateValue(pool, result)
                /\ heap' = heap
           ELSE IF result.unique
                THEN IF result.node # 0 /\ heap[result.node].kind = "string"
                     THEN \* GetAndClearStringIDWithReference: the node's own
                          \* reference is handed over, the freed node has none
                          /\ ReturnStringID(heap[result.node].sid)
                          /\ pool' = pool
                          /\ heap' = HeapAfterFree(heap, result.node)
                     ELSE /\ ReturnStringID(ToStringID(heap, result.node))
                          /\ pool' = CreateStringReference(pool,
                                         ToStringID(heap, result.node))
                          /\ heap' = HeapAfterFree(heap, result.node)
                ELSE /\ ReturnStringID(ToStringID(heap, result.node))
                     /\ pool' = CreateStringReference(pool,
                                    ToStringID(heap, result.node))
                     /\ heap' = heap
    /\ pc' = "helper_done"
    /\ UNCHANGED <<helperCall, intermediate, helperLog, destinationVars,
                   interpreterFrame, otherThanHelper>>

\* the helpers
HelperFns ==
    {"UniqueNumberValue", "UniqueStringIDValue", "StringIDValueIfExists",
     "StringIDValueWithReference"}

\* the number of references the string nodes of a heap hold to an ID
ReferencesHeld(h, sid) ==
    Cardinality({node \in DOMAIN h :
                     h[node].kind = "string" /\ h[node].sid = sid})

InitHelpers ==
    /\ InterpreterInHandler
    /\ pc = "helper"
    /\ opStack = <<1>>
    /\ usedNodes = 0
    /\ perf = NoPerf
    /\ ConstraintsUnused
    /\ ConcurrencyUnused
    /\ RewriteUnused
    /\ AssetsUnused
    /\ DestinationUnused
    /\ ConvertUnused
    /\ heap \in [{1} -> NodeRecords]
    /\ helperCall \in [fn : HelperFns, n : {0, 1}]
    /\ \E others \in [StringIds -> {0, 1}] :
           pool = [sid \in StringIds |->
                       ReferencesHeld(heap, sid) + others[sid]]
    /\ intermediate = NoIntermediate
    /\ helperRet = NoHelperRet
    /\ helperLog = [pool |-> pool, heap |-> heap, interpreted |-> FALSE,
                    result |-> NoRecord]

NextHelpers ==
    \/ InterpretNodeIntoUniqueNumberValueEvaluableNode
    \/ InterpretNodeIntoUniqueStringIDValueEvaluableNode
    \/ InterpretNodeIntoStringIDValueIfExists
    \/ InterpretNodeIntoStringIDValueWithReference
    \/ HelperInterpretNode
    \/ UniqueNumberValueOfResult
    \/ UniqueStringIDValueOfResult
    \/ StringIDValueIfExistsOfResult
    \/ StringIDValueWithReferenceOfResult

SpecHelpers == InitHelpers /\ [][NextHelpers]_vars

----------------------------------------------------------------------------
(* ConvertArgsToCallStack.  A node has a type, the need_cycle_check flag   *)
(* and children: an associative array maps keys to nodes, a list is a      *)
(* sequence of nodes.                                                      *)

\* args->IsAssociativeArray()
IsAssociativeArray(record) == record.kind = "assoc"

\* enm.AllocNode(ENT_ASSOC)
EmptyAssoc == [kind |-> "assoc", need_cycle_check |-> FALSE, children |-> <<>>]

\* arguments that are placed in the call stack as they are
CopiesArgs_Never(args) == FALSE

\* whether args, an associative array, is copied: it is when the reference
\* is not unique
CopiesArgs(args) == ~args.unique

\* the frame that is placed in the call stack: the node, whether the
\* reference to it is unique, and the nodes of the manager with it
FrameOfArgs(args, nodes) ==
    IF args.node = 0 \/ ~IsAssociativeArray(nodes[args.node])
    THEN [node |-> AllocNode(nodes), unique |-> TRUE,
          nodes |-> WithNode(nodes, AllocNode(nodes), EmptyAssoc)]
    ELSE IF CopiesArgs(args)
         THEN [node |-> AllocNode(nodes), unique |-> args.unique,
               nodes |-> WithNode(nodes, AllocNode(nodes), nodes[args.node])]
         ELSE [node |-> args.node, unique |-> args.unique, nodes |-> nodes]

ConvertArgsToCallStack ==
    /\ pc = "convert"
    /\ LET frame == FrameOfArgs(cvArgs, cvNodes)
           call_stack == AllocNode(frame.nodes)
           listed == WithNode(frame.nodes, call_stack,
                        [kind |-> "list", need_cycle_check |-> TRUE,
                         children |-> <<frame.node>>])
       IN  /\ cvNodes' = [listed EXCEPT ![frame.node].need_cycle_check = TRUE]
           /\ cvRet' = [node |-> call_stack, unique |-> frame.unique]
    /\ pc' = "converted"
    /\ UNCHANGED <<cvArgs, interpreterFrame, otherThanConvert>>

\* the children of an associative array: nodes 5 and 6, which the manager
\* holds as well, under some of two keys
MappedChildren ==
    {<<>>} \cup UNION {[keys -> {5, 6}] : keys \in {{"a"}, {"b"}, {"a", "b"}}}

\* the nodes args can refer to, with the children they can have
ArgsNodes ==
    [kind : {"assoc"}, need_cycle_check : BOOLEAN, children : MappedChildren]
    \cup [kind : {"list"}, need_cycle_check : BOOLEAN,
          children : {<<>>, <<5>>, <<6>>, <<5, 6>>}]
    \cup [kind : {"immediate"}, need_cycle_check : BOOLEAN, children : {<<>>}]

InitConvert ==
    /\ InterpreterInHandler
    /\ pc = "convert"
    /\ opStack = <<1>>
    /\ usedNodes = 0
    /\ perf = NoPerf
    /\ ConstraintsUnused
    /\ ConcurrencyUnused
    /\ RewriteUnused
    /\ AssetsUnused
    /\ HelpersUnused
    /\ \/ \E u \in BOOLEAN :
            /\ cvNodes = <<>>
            /\ cvArgs = [node |-> 0, unique |-> u, nodes |-> cvNodes]
       \/ \E u \in BOOLEAN, record \in ArgsNodes :
            /\ cvNodes = WithNode(<<>>, 1, record)
            /\ cvArgs = [node |-> 1, unique |-> u, nodes |-> cvNodes]
    /\ cvRet = NoReference

NextConvert == ConvertArgsToCallStack

SpecConvert == InitConvert /\ [][NextConvert]_vars

----------------------------------------------------------------------------
(* Properties *)

Elements(seq) == {seq[i] : i \in 1..Len(seq)}

Maximum(S) == CHOOSE m \in S : \A x \in S : x <= m

\* the frames (counted from 1) of a call stack, among those of `range',
\* that bind sid
FramesBinding(frames, sid, range) ==
    {i \in range : i \in 1..Len(frames) /\ sid \in frames[i]}

\* C1: every InterpretNode call returns with the opcode stack it was
\* entered with, on the null path, the exhaustion path and the dispatch path
C1_OpcodeStackBalanced ==
    /\ lastCall.path # "none" => lastCall.exit = lastCall.entry
    /\ pc \in {"exec_ret", "done"} => opStack = input.interpreter_node_stack.nodes

C1_Witness ==
    /\ pc = "handler"
    /\ lastCall.path = "normal"
    /\ lastCall.entry # <<>>
    /\ "depth" \in everExhausted

\* C2: a call whose resource check reported exhaustion returns the null
\* reference, and no handler runs for it
C2_ExhaustionReturnsNull ==
    /\ lastCall.exhausted => lastCall.result = NullNode /\ ~lastCall.dispatched
    /\ \A i \in 1..Len(ctl) : ~ctl[i].exhausted

C2_Witness ==
    /\ lastCall.path = "exhausted"
    /\ lastCall.node # NullNode
    /\ lastCall.entry # <<>>

C4_CollectionSeesNodesUnderEvaluation ==
    gcLog.called =>
        /\ gcLog.rooted
        /\ gcLog.underEval \subseteq Elements(gcLog.stackSeen)

C4_Witness ==
    /\ gcLog.called
    /\ Cardinality(gcLog.underEval) >= 3

\* C5: ExecuteNode keeps one reference to each of its three stacks while
\* InterpretNode runs and has released exactly those when it returns; it
\* frees the opcode-stack and construction-stack list nodes and not a call
\* stack its caller supplied
C5_ExecuteNodeRootsBalanced ==
    /\ pc \in {"call", "handler", "exec_ret"} =>
            \A id \in Elements(ReferencesKeptByExecuteNode(stackIds)) :
                keptRefs[id] = refsAtEntry[id] + 1
    /\ pc = "done" =>
            /\ keptRefs = refsAtEntry
            /\ {stackIds.ins, stackIds.con} \subseteq freed
            /\ input.call_stack.given => stackIds.cs \notin freed

C5_Witness ==
    /\ pc = "done"
    /\ input.call_stack.given
    /\ refsAtEntry["cs_arg"] = 1
    /\ lastCall.path = "normal"

\* C6: with both access flags set GetCallStackSymbolLocation reports the
\* newest frame that binds sid and that frame's index, null when no frame
\* binds it, and leaves every frame as it was
C6_LookupFindsNewestFrame ==
    (lastLookup.op = "get" /\ lastLookup.include_unique_access
                           /\ lastLookup.include_shared_access) =>
        LET binding == FramesBinding(lastLookup.before, lastLookup.sid,
                                     1..Len(lastLookup.before))
        IN  /\ lastLookup.found <=> binding # {}
            /\ binding # {} => lastLookup.index = Maximum(binding) - 1
            /\ lastLookup.after = lastLookup.before
            /\ callStack = lastLookup.before

C6_Witness ==
    /\ lastLookup.op = "get"
    /\ lastLookup.include_unique_access /\ lastLookup.include_shared_access
    /\ lastLookup.found
    /\ Cardinality(FramesBinding(lastLookup.before, lastLookup.sid,
                                 1..Len(lastLookup.before))) >= 2
    /\ lastLookup.sid \notin lastLookup.before[1]

\* C7 as stated: the frame in which GetOrCreateCallStackSymbolLocation
\* creates a binding has an index at or above unique_access_start_depth
C7_CreatesOnlyInPrivateFrame ==
    (lastLookup.op = "get_or_create" /\ lastLookup.created) =>
        lastLookup.index >= lastLookup.depth

\* C7 as amended: the binding is created in the topmost frame, and that
\* frame has an index at or above unique_access_start_depth exactly when the
\* interpreter was given no call stack or has pushed a frame of its own
C7_CreatesInTopmostFrame ==
    (lastLookup.op = "get_or_create" /\ lastLookup.created) =>
        /\ lastLookup.index = Len(lastLookup.before) - 1
        /\ lastLookup.index >= lastLookup.depth
            <=> (~input.call_stack.given
                 \/ Len(lastLookup.before) > Len(input.call_stack.frames))

C7_Witness ==
    /\ lastLookup.op = "get_or_create" /\ lastLookup.created
    /\ input.call_stack.given
    /\ input.call_stack_write_mutex
    /\ Len(lastLookup.before) = Len(input.call_stack.frames)
    /\ lastLookup.index < lastLookup.depth

\* C8: GetOrCreateCallStackSymbolLocation reports the newest frame that
\* bound s before the call and creates nothing, or, when no frame bound s,
\* adds s to the topmost frame and reports the top index; every other frame
\* keeps its bindings
C8_SymbolLookupLocality ==
    lastLookup.op = "get_or_create" =>
        LET before == lastLookup.before
            after == lastLookup.after
            binding == FramesBinding(before, lastLookup.sid, 1..Len(before))
        IN  /\ Len(after) = Len(before)
            /\ binding # {} =>
                    /\ lastLookup.index = Maximum(binding) - 1
                    /\ ~lastLookup.created
                    /\ after = before
            /\ binding = {} =>
                    /\ lastLookup.index = Len(before) - 1
                    /\ lastLookup.created
                    /\ after[Len(before)] = before[Len(before)] \cup {lastLookup.sid}
                    /\ \A i \in 1..(Len(before) - 1) : after[i] = before[i]

C8_Witness ==
    /\ lastLookup.op = "get_or_create"
    /\ lastLookup.created
    /\ Len(lastLookup.before) >= 3
    /\ lastLookup.before[1] # {}

\* C9: the access flags limit the walk of GetCallStackSymbolLocation: unique
\* access alone searches the frames at or above unique_access_start_depth,
\* shared access alone the frames below it, both together all frames; the
\* newest binding frame of the searched range is reported, and null when the
\* range holds none
C9_FlagsLimitTheWalk ==
    (lastLookup.op = "get" /\ (lastLookup.include_unique_access
                               \/ lastLookup.include_shared_access)) =>
        LET before == lastLookup.before
            range == (IF lastLookup.include_shared_access
                      THEN 1..lastLookup.depth ELSE {})
                \cup (IF lastLookup.include_unique_access
                      THEN (lastLookup.depth + 1)..Len(before) ELSE {})
            binding == FramesBinding(before, lastLookup.sid, range)
        IN  /\ lastLookup.found <=> binding # {}
            /\ binding # {} => lastLookup.index = Maximum(binding) - 1

C9_Witness ==
    /\ lastLookup.op = "get"
    /\ lastLookup.include_unique_access /\ ~lastLookup.include_shared_access
    /\ ~lastLookup.found
    /\ lastLookup.depth >= 1 /\ lastLookup.depth < Len(lastLookup.before)
    /\ FramesBinding(lastLookup.before, lastLookup.sid,
                     1..lastLookup.depth) # {}

C11_UniqueAccessDepthAtEntry ==
    pc \in {"call", "handler", "exec_ret", "done"} =>
        /\ input.call_stack.given =>
                /\ uniqueDepth = Len(input.call_stack.frames)
                /\ Len(callStack) >= uniqueDepth
        /\ ~input.call_stack.given =>
                /\ uniqueDepth = 0
                /\ pc = "call" => callStack = <<{}>>
                /\ Len(callStack) >= 1

C11_Witness ==
    /\ pc = "handler"
    /\ input.call_stack.given
    /\ Len(input.call_stack.frames) = 2
    /\ Len(callStack) = 3
    /\ uniqueDepth = 2

\* min(B, R) when the child requested B, R when it requested none
MinOrRemaining(own, remaining) ==
    IF own # 0 THEN Min(own, remaining) ELSE remaining

\* the step and depth budgets of the child, as C12 states them
StepAndDepthBudgetsWithinRemaining ==
    /\ (ConstrainedExecutionSteps(perf)
        /\ GetRemainingNumExecutionSteps(perf) > 0) =>
            childPerf.maxNumExecutionSteps - childPerf.curExecutionStep
                = MinOrRemaining(requested.maxNumExecutionSteps,
                                 GetRemainingNumExecutionSteps(perf))
    /\ (ConstrainedOpcodeExecutionDepth(perf)
        /\ GetRemainingOpcodeExecutionDepth(perf, Len(opStack)) > 0) =>
            childPerf.maxOpcodeExecutionDepth
                = MinOrRemaining(requested.maxOpcodeExecutionDepth,
                        GetRemainingOpcodeExecutionDepth(perf, Len(opStack)))

\* C12 as stated: of every budget of which a constrained parent has R > 0
\* left, the child gets min(B, R), or R when it requested none; the node
\* budget is measured as the maximum minus the nodes in use
C12_ChildBudgetWithinRemaining ==
    (pc = "populated" /\ perf.present /\ requested.present) =>
        /\ StepAndDepthBudgetsWithinRemaining
        /\ (ConstrainedAllocatedNodes(perf)
            /\ GetRemainingNumAllocatedNodes(perf, usedNodes) > 0) =>
                childPerf.maxNumAllocatedNodes - usedNodes
                    = MinOrRemaining(requested.maxNumAllocatedNodes,
                            GetRemainingNumAllocatedNodes(perf, usedNodes))

\* whether the parent's id-length limit is written into maxNumAllocatedNodes
IdLengthLimitStoredAsNodeLimit ==
    /\ entities.given
    /\ perf.maxEntityIdLength > 0
    /\ requested.maxEntityIdLength = 0

\* C12 as amended: the step and depth budgets are min(B, R), or R when none
\* was requested; the node budget above the nodes in use is that amount
\* times the number of active threads, unless the parent's id-length limit
\* was stored in its place
C12_ChildBudgetScaledByThreads ==
    (pc = "populated" /\ perf.present /\ requested.present) =>
        /\ StepAndDepthBudgetsWithinRemaining
        /\ (ConstrainedAllocatedNodes(perf)
            /\ GetRemainingNumAllocatedNodes(perf, usedNodes) > 0) =>
                IF IdLengthLimitStoredAsNodeLimit
                THEN childPerf.maxNumAllocatedNodes = perf.maxEntityIdLength
                ELSE childPerf.maxNumAllocatedNodes - usedNodes
                        = numActiveThreads
                            * MinOrRemaining(requested.maxNumAllocatedNodes,
                                GetRemainingNumAllocatedNodes(perf, usedNodes))

C12_Witness ==
    /\ pc = "populated"
    /\ perf.present /\ requested.present
    /\ numActiveThreads = 2
    /\ GetRemainingNumAllocatedNodes(perf, usedNodes) = 1
    /\ childPerf.maxNumAllocatedNodes - usedNodes = 2
    /\ GetRemainingNumExecutionSteps(perf) = 1
    /\ requested.maxNumExecutionSteps = MaxBudget
    /\ childPerf.maxNumExecutionSteps = 1
    /\ usedNodes > 0

\* the budgets of which the constrained parent has nothing left
BudgetsTheParentHasExhausted ==
    (IF ConstrainedExecutionSteps(perf)
        /\ GetRemainingNumExecutionSteps(perf) = 0
     THEN {"steps"} ELSE {})
    \cup (IF ConstrainedAllocatedNodes(perf)
             /\ GetRemainingNumAllocatedNodes(perf, usedNodes) = 0
          THEN {"nodes"} ELSE {})
    \cup (IF ConstrainedOpcodeExecutionDepth(perf)
             /\ GetRemainingOpcodeExecutionDepth(perf, Len(opStack)) = 0
          THEN {"depth"} ELSE {})

\* C13: when the parent has nothing left of a budget, the block derived for
\* the child is exhausted at the child's first resource check
C13_ExhaustedParentStopsChild ==
    (pc = "checked" /\ perf.present /\ BudgetsTheParentHasExhausted # {}) =>
        firstCheck.exceeded # {}

\* the node maximum of the child after the parent's budget was applied
NodeBudgetOfChild ==
    IF perf.present /\ ConstrainedAllocatedNodes(perf)
    THEN IF GetRemainingNumAllocatedNodes(perf, usedNodes) > 0
         THEN MinOrRemaining(requested.maxNumAllocatedNodes,
                             GetRemainingNumAllocatedNodes(perf, usedNodes))
         ELSE 1
    ELSE requested.maxNumAllocatedNodes

\* C14: the child's max_allocated_nodes is its node budget times the number
\* of active threads plus the nodes in use, and 0 when it has no node budget
C14_AllocatedNodesScaledAndOffset ==
    (pc = "populated" /\ requested.present) =>
        childPerf.maxNumAllocatedNodes =
            IF NodeBudgetOfChild # 0
            THEN NodeBudgetOfChild * numActiveThreads + usedNodes
            ELSE 0

\* whether parameter k of the six is absent, NaN or negative
NoLimitGiven(k) ==
    LET pos == paramCall.perf_constraint_param_offset + k
    IN  \/ ~HasParam(params, pos)
        \/ params[pos + 1].nan
        \/ params[pos + 1].tenths < 0

\* C15: PopulatePerformanceConstraintsFromParams evaluates at most the six
\* parameters from the offset on; a budget whose parameter is absent, NaN or
\* negative is left unconstrained; the counters of the block are 0
C15_ParamsPopulateConstraints ==
    paramCall.state = "returned" =>
        /\ paramReads \subseteq
                paramCall.perf_constraint_param_offset
                    ..(paramCall.perf_constraint_param_offset + 5)
        /\ NoLimitGiven(0) => childPerf.maxNumExecutionSteps = 0
        /\ NoLimitGiven(1) => childPerf.maxNumAllocatedNodes = 0
        /\ NoLimitGiven(2) => childPerf.maxOpcodeExecutionDepth = 0
        /\ NoLimitGiven(3) => ~childPerf.constrainMaxContainedEntities
        /\ NoLimitGiven(4) => ~childPerf.constrainMaxContainedEntityDepth
        /\ NoLimitGiven(5) => childPerf.maxEntityIdLength = 0
        /\ childPerf.curExecutionStep = 0
        /\ childPerf.curNumAllocatedNodesAllocatedToEntities = 0

C15_Witness ==
    /\ paramCall.state = "returned"
    /\ paramCall.include_entity_constraints
    /\ paramCall.perf_constraint_param_offset = 1
    /\ Len(params) = 7
    /\ Cardinality(paramReads) = 6
    /\ params[5] = NaN
    /\ ~childPerf.constrainMaxContainedEntities
    /\ childPerf.constrainMaxContainedEntityDepth
    /\ childPerf.maxNumExecutionSteps = 2

\* C16: InterpretEvaluableNodesConcurrently returns false exactly when the
\* parent lacks the concurrency flag, there are fewer than 2 nodes or the
\* pool has no thread available, and then has enqueued nothing and left
\* interpreted_nodes alone; otherwise it enqueues one task for every node,
\* all of them under the batch-enqueue lock, and returns true; with the
\* lock free the tasks of all nodes are enqueued or none is
C16_AllTasksOrNone ==
    /\ concReturn = "false" <=>
            (/\ pc = "returned"
             /\ \/ ~concArgs.concurrency
                \/ Len(concArgs.nodes) < 2
                \/ ~concArgs.threads_available)
    /\ concReturn = "false" =>
            /\ tasks = <<>>
            /\ interpretedNodes = concArgs.interpreted_at_entry
            /\ ~concLog.resized
    /\ concReturn = "true" =>
            /\ Len(tasks) = Len(concArgs.nodes)
            /\ \A i \in 1..Len(tasks) : tasks[i].node = concArgs.nodes[i]
    /\ ~concLog.enqueued_unlocked
    /\ ~enqueueLock => Len(tasks) \in {0, Len(concArgs.nodes)}

C16_Witness ==
    /\ concReturn = "true"
    /\ Len(tasks) = 3
    /\ concArgs.nodes[1] = concArgs.nodes[3]
    /\ concArgs.interpreted_at_entry # <<>>

\* C17: when the function has returned true, interpreted_nodes has one entry
\* for every node and entry i is the result of nodes[i], in whatever order
\* the tasks ran and completed
C17_ResultsInSubmissionOrder ==
    concReturn = "true" =>
        /\ Len(interpretedNodes) = Len(concArgs.nodes)
        /\ \A i \in 1..Len(concArgs.nodes) :
                interpretedNodes[i] = ResultOf(concArgs.nodes[i])

C17_Witness ==
    /\ concReturn = "true"
    /\ Len(concArgs.nodes) = 3
    /\ concLog.completed = <<3, 1, 2>>
    /\ concArgs.nodes[1] # concArgs.nodes[2]
    /\ concArgs.nodes[2] # concArgs.nodes[3]

RECURSIVE ChainToRoot(_, _)
\* a new node followed by its ancestors in the new tree, as the
\* new-node-to-parent map gives them
ChainToRoot(node, parents) ==
    IF node = NullNode THEN <<>>
    ELSE IF node \notin DOMAIN parents THEN <<node>>
    ELSE <<node>> \o ChainToRoot(parents[node], parents)

\* the position in the chain of the first node that carried the flag
\* before the walk, or one past the end of the chain
FirstFlagged(chain, before) ==
    LET flagged == {i \in 1..Len(chain) : before[chain[i]]}
    IN  IF flagged = {} THEN Len(chain) + 1
        ELSE CHOOSE i \in flagged : \A j \in flagged : i <= j

\* what a walk from the logged node leaves: the flag on the chain up to
\* the first node that carried it, every other flag as it was
WalkStopsAtFirstFlagged ==
    LET chain == ChainToRoot(rwLog.node, rwLog.parents)
        stop == FirstFlagged(chain, rwLog.before)
    IN  /\ \A i \in 1..Len(chain) :
            needCycleCheck[chain[i]] = (i <= stop \/ rwLog.before[chain[i]])
        /\ \A n \in DOMAIN needCycleCheck :
            (\A i \in 1..Len(chain) : chain[i] # n)
                => needCycleCheck[n] = rwLog.before[n]

\* C18 (as stated): after the revisit of an original that was rewritten
\* already, the existing new node and every ancestor of it in the new tree
\* have need_cycle_check set, whatever they carried before, and the revisit
\* returns the existing new node as a non-unique reference.
C18_RevisitFlagsAllAncestors ==
    rwLog.op = "revisit" =>
        /\ \A i \in 1..Len(ChainToRoot(rwLog.node, rwLog.parents)) :
            needCycleCheck[ChainToRoot(rwLog.node, rwLog.parents)[i]]
        /\ rwRet = [node |-> rwLog.node, unique |-> FALSE]

\* C18 (amended): after the revisit the existing new node has
\* need_cycle_check set, and so has every ancestor up to and including the
\* first node of the chain that carried the flag already; the ancestors
\* above that node keep the flags they had; the revisit returns the existing
\* new node, the one recorded for the original, as a non-unique reference.
C18_RevisitFlagsUpToFirstFlagged ==
    rwLog.op = "revisit" =>
        /\ needCycleCheck[rwLog.node]
        /\ WalkStopsAtFirstFlagged
        /\ \E tree \in DOMAIN originalToNew :
            originalToNew[tree] = rwLog.node
        /\ rwRet = [node |-> rwLog.node, unique |-> FALSE]

\* a revisit whose walk set the flag on the node, met a parent that carried
\* it and left the unflagged grandparent alone
C18_Witness ==
    /\ rwLog.op = "revisit"
    /\ ~rwLog.before[rwLog.node]
    /\ LET chain == ChainToRoot(rwLog.node, rwLog.parents)
       IN  /\ Len(chain) >= 3
           /\ rwLog.before[chain[2]]
           /\ ~needCycleCheck[chain[3]]
    /\ needCycleCheck[rwLog.node]
    /\ rwRet.node = rwLog.node

\* the child slots of the originals that were rewritten: the original that
\* holds the slot and the position of the slot
RewrittenSlots ==
    {sl \in (Nodes \cap DOMAIN originalToNew) \X (1..Cardinality(Nodes)) :
        sl[2] <= Len(ChildrenOf(sl[1]))}

\* C19: when the rewrite is done, two different child slots through which
\* the original graph reaches one and the same node correspond to slots of
\* the rewritten graph that hold one and the same node.
C19_SharedNodeSameAtBothSlots ==
    pc = "rw_done" =>
        \A s1 \in RewrittenSlots, s2 \in RewrittenSlots :
            (/\ s1 # s2
             /\ ChildrenOf(s1[1])[s1[2]] # NullNode
             /\ ChildrenOf(s1[1])[s1[2]] = ChildrenOf(s2[1])[s2[2]])
                => newChildren[originalToNew[s1[1]]][s1[2]]
                     = newChildren[originalToNew[s2[1]]][s2[2]]

\* C20 (as stated): when the construction context pushed for the children
\* of a node reports the side-effect flag at its pop, the new node and all
\* its ancestors in the new tree have need_cycle_check set before the user
\* function is applied to the node.
C20_SideEffectFlagsAllAncestors ==
    rwLog.op = "side_effect" =>
        /\ pc = "rw_apply"
        /\ \A i \in 1..Len(ChainToRoot(rwLog.node, rwLog.parents)) :
            needCycleCheck[ChainToRoot(rwLog.node, rwLog.parents)[i]]

\* C20 (amended): when the popped context reports the side-effect flag,
\* then before the user function is applied to the node the new node has
\* need_cycle_check set, and so has every ancestor up to and including the
\* first node of the chain that carried the flag already; the ancestors
\* above that node keep the flags they had.
C20_SideEffectFlagsUpToFirstFlagged ==
    rwLog.op = "side_effect" =>
        /\ pc = "rw_apply"
        /\ rwFrames # <<>>
        /\ rwFrames[Len(rwFrames)].new_tree = rwLog.node
        /\ needCycleCheck[rwLog.node]
        /\ WalkStopsAtFirstFlagged

\* a side effect reported for a node that is not the root: the walk has set
\* the flag on the node and on its unflagged parent
C20_Witness ==
    /\ rwLog.op = "side_effect"
    /\ pc = "rw_apply"
    /\ Len(ChainToRoot(rwLog.node, rwLog.parents)) >= 2
    /\ ~rwLog.before[rwLog.node]
    /\ ~rwLog.before[rwLog.parents[rwLog.node]]
    /\ needCycleCheck[rwLog.node]
    /\ needCycleCheck[rwLog.parents[rwLog.node]]

\* the node maximum the three evaluation budgets leave in the child's block
ScaledNodeBudgetOfChild ==
    IF NodeBudgetOfChild # 0
    THEN NodeBudgetOfChild * numActiveThreads + usedNodes
    ELSE 0

\* what lines 1044-1051 leave when they are reached with a parent that limits
\* the length of entity ids
IdLengthStepApplied ==
    IF requested.maxEntityIdLength = 0
    THEN /\ childPerf.maxNumAllocatedNodes = perf.maxEntityIdLength
         /\ childPerf.maxEntityIdLength = 0
    ELSE /\ childPerf.maxEntityIdLength
                = Min(requested.maxEntityIdLength, perf.maxEntityIdLength)
         /\ childPerf.maxNumAllocatedNodes = ScaledNodeBudgetOfChild

\* C29 (as stated): when the parent limits the length of entity ids and the
\* child has no such limit, the parent's limit is written into the child's
\* maxNumAllocatedNodes and the child's maxEntityIdLength stays 0; when both
\* have a limit the child's becomes the lesser one and maxNumAllocatedNodes
\* is what the node budget left there.
C29_IdLengthLimitIntoAllocatedNodes ==
    (pc = "populated" /\ requested.present /\ perf.present
        /\ perf.maxEntityIdLength > 0) => IdLengthStepApplied

\* C29 (amended): the above holds when an entity to constrain from is given;
\* without one the function returns before the step, and the child's
\* maxEntityIdLength and maxNumAllocatedNodes are what they were before it.
C29_IdLengthLimitWhenEntityGiven ==
    (pc = "populated" /\ requested.present /\ perf.present
        /\ perf.maxEntityIdLength > 0) =>
        IF entities.given
        THEN /\ IdLengthStepApplied
             /\ childPerf.entityToConstrainFrom
        ELSE /\ childPerf.maxEntityIdLength = requested.maxEntityIdLength
             /\ childPerf.maxNumAllocatedNodes = ScaledNodeBudgetOfChild
             /\ ~childPerf.entityToConstrainFrom

\* an entity is given, the child asked for a node budget and for no limit of
\* id lengths, and the parent's id-length limit has replaced the node budget
C29_Witness ==
    /\ pc = "populated"
    /\ requested.present
    /\ entities.given
    /\ perf.maxEntityIdLength > 0
    /\ requested.maxEntityIdLength = 0
    /\ requested.maxNumAllocatedNodes > 0
    /\ childPerf.maxNumAllocatedNodes = perf.maxEntityIdLength
    /\ childPerf.maxNumAllocatedNodes # ScaledNodeBudgetOfChild
    /\ childPerf.maxEntityIdLength = 0

RECURSIVE DecimalValue(_)
\* the number a string of decimal digits writes
DecimalValue(digits) ==
    IF digits = <<>> THEN 0
    ELSE 10 * DecimalValue(SubSeq(digits, 1, Len(digits) - 1))
            + DigitValue(digits[Len(digits)])

\* whether s is a non-empty string of decimal digits
IsNumber(s) == s # <<>> /\ \A i \in 1..Len(s) : s[i] \in Digits

\* the readings of v as major.minor.patch with an optional -suffix: the
\* triple of its numbers if v is well formed, nothing otherwise
VersionFields(v) ==
    {<<DecimalValue(SubSeq(v, 1, p - 1)), DecimalValue(SubSeq(v, p + 1, q - 1)),
       DecimalValue(SubSeq(v, q + 1, n))>> :
        <<p, q, n>> \in {t \in (1..Len(v)) \X (1..Len(v)) \X (1..Len(v)) :
            /\ t[1] < t[2] /\ t[2] < t[3]
            /\ v[t[1]] = "." /\ v[t[2]] = "."
            /\ IsNumber(SubSeq(v, 1, t[1] - 1))
            /\ IsNumber(SubSeq(v, t[1] + 1, t[2] - 1))
            /\ IsNumber(SubSeq(v, t[2] + 1, t[3]))
            /\ (t[3] = Len(v) \/ v[t[3] + 1] = "-")}}

\* a triple that is greater in lexicographic order
LexGreater(a, b) ==
    \E i \in 1..3 : a[i] > b[i] /\ \A j \in 1..(i - 1) : a[j] = b[j]

EngineVersion == <<engine.major, engine.minor, engine.patch>>

\* whether the version splits into three fields at the dots before the suffix
ThreeFields == Len(Split(Split(version, "-")[1], ".")) = 3

C26_SkippedWhenAnyFieldZero ==
    (validation.done /\ ThreeFields /\ VersionFields(version) # {}
        /\ (engine.major = 0 \/ engine.minor = 0 \/ engine.patch = 0)) =>
        validation.success

\* C26 (amended): every version of three fields is accepted whenever the
\* engine's suffix is not empty or all three of its major, minor and patch
\* are zero; with an empty suffix and a field that is not zero the
\* comparison is made, also when another field is zero.
C26_SkippedWhenAllFieldsZero ==
    (validation.done /\ ThreeFields) =>
        /\ (engine.suffix # <<>> \/ EngineVersion = <<0, 0, 0>>) =>
            validation.success
        /\ (engine.suffix = <<>> /\ EngineVersion # <<0, 0, 0>>) =>
            \A f \in VersionFields(version) :
                f[1] # engine.major => ~validation.success

\* an engine with an empty suffix and a zero minor rejects a version
C26_Witness ==
    /\ validation.done
    /\ ThreeFields
    /\ engine.suffix = <<>>
    /\ engine.minor = 0
    /\ engine.major # 0
    /\ VersionFields(version) # {}
    /\ ~validation.success

\* whether the metadata of file f holds a version the engine does not accept
VersionRejected(f) ==
    /\ files.version[f] # NoVersion
    /\ \A fld \in VersionFields(files.version[f]) :
        fld[1] # engine.major \/ LexGreater(fld, EngineVersion)

RECURSIVE LoadFails(_)
\* whether the load of file f as a contained entity fails: the file is not
\* read, its version is rejected, or the load of a file of its directory
\* fails
LoadFails(f) ==
    \/ ~files.loads[f]
    \/ /\ files.file_type # FILE_EXTENSION_COMPRESSED_AMALGAM_CODE
       /\ \/ VersionRejected(f)
          \/ \E i \in 1..Len(files.children[f]) :
                LoadFails(files.children[f][i])

\* the version of the entity's metadata fails validation, or the load of an
\* entity it contains, at any depth, fails
VersionOrContainedEntityFails ==
    /\ files.loads[1]
    /\ files.file_type # FILE_EXTENSION_COMPRESSED_AMALGAM_CODE
    /\ \/ VersionRejected(1)
       \/ /\ files.load_contained_entities
          /\ \E i \in 1..Len(files.children[1]) :
                LoadFails(files.children[1][i])

RECURSIVE IntermediateDirectories(_)
\* the escaped ids of the containers k, k - 1, ..., 1 as directories
IntermediateDirectories(k) ==
    IF k = 0 THEN <<>>
    ELSE <<"/">> \o SafeEscapeFilename(createArg.containers[k].id)
            \o IntermediateDirectories(k - 1)

\* base and ext of a path base.ext
BaseOf(path) == SubSeq(path, 1, LastIndexOf(path, ".") - 1)

ExtensionOf(path) == SubSeq(path, LastIndexOf(path, ".") + 1, Len(path))

\* the file of the entity below a persistent container stored at base.ext:
\* base, the intermediate containers, the escaped id, and an extension
ChildFile(k, extension) ==
    BaseOf(createArg.containers[k].path) \o IntermediateDirectories(k - 1)
        \o <<"/">> \o SafeEscapeFilename(createArg.id) \o <<".">> \o extension

\* C28: a file CreateEntity stores for the entity below a persistent
\* container stored at base.ext lies in the directory derived from base and
\* the escaped ids of the intermediate containers, is named by the escaped
\* id of the entity, and carries the extension ext, which is also the file
\* type it is encoded with.
C28_ChildFileCarriesExtensionOfContainer ==
    \A i \in 1..Len(stored) :
        LET ext == ExtensionOf(createArg.containers[stored[i].container].path)
        IN  /\ stored[i].resource_path = ChildFile(stored[i].container, ext)
            /\ stored[i].file_type = ext

\* the entity the id path of the call names, 0 when it names none
DestinationEntity == EntityAtPath(destArg, destArg.cur, destArg.path)

\* the container the id path of the call names a place in, 0 when an id
\* before the last names no entity
DestinationContainer ==
    EntityAtPath(destArg, destArg.cur,
                 SubSeq(destArg.path, 1, Len(destArg.path) - 1))

\* C30: InterpretNodeIntoDestinationEntity returns the entity the id path
\* names with an empty id when that entity exists, and otherwise the
\* container with the last id of the path as the new id; it never returns an
\* entity that exists together with a non-empty id
C30_EntityOrContainerWithNewId ==
    pc = "destination_done" =>
        IF DestinationEntity # 0
        THEN destRet = [reference |-> DestinationEntity, id |-> ""]
        ELSE /\ destRet.reference = DestinationContainer
             /\ destRet.reference # 0 =>
                    destRet.id = destArg.path[Len(destArg.path)]
             /\ destRet.reference = 0 => destRet.id = ""

\* the path names an entity that exists, and the traversal left its id in
\* new_entity_id
C30_Witness ==
    /\ pc = "destination_done"
    /\ DestinationEntity # 0
    /\ destTraversal.new_entity_id # ""
    /\ destRet = [reference |-> DestinationEntity, id |-> ""]

\* a helper that returns a unique node has returned
UniqueHelperDone ==
    /\ pc = "helper_done"
    /\ helperCall.fn \in {"UniqueNumberValue", "UniqueStringIDValue"}

\* the kind of node the helper is asked for
WantedKind ==
    IF helperCall.fn = "UniqueNumberValue" THEN "number" ELSE "string"

\* C21: InterpretNodeIntoUniqueNumberValueEvaluableNode and
\* InterpretNodeIntoUniqueStringIDValueEvaluableNode return, for every n and
\* every result of interpreting it, a reference that is not null and is
\* unique, to a node of kind number (respectively string) that nothing
\* referred to before the call
C21_UniqueNodeOfWantedKind ==
    UniqueHelperDone =>
        /\ helperRet.node # 0
        /\ helperRet.unique
        /\ helperRet.node \in DOMAIN heap
        /\ helperRet.node \notin DOMAIN helperLog.heap
        /\ heap[helperRet.node].kind = WantedKind

\* n was interpreted into a unique node of another kind, which is returned
C21_Witness ==
    /\ UniqueHelperDone
    /\ helperLog.interpreted
    /\ intermediate.unique
    /\ helperRet.node = intermediate.node
    /\ helperLog.result.kind \notin {"", WantedKind}
    /\ heap[helperRet.node].kind = WantedKind

\* C22: in the unique-number and unique-string helpers, a unique result of
\* InterpretNode that is not null is itself returned, retyped in place with
\* its metadata cleared, and no node is allocated; when the result is not
\* unique its node is left as it was and a newly allocated node is returned
C22_ReuseUniqueElseAllocate ==
    (UniqueHelperDone /\ helperLog.interpreted) =>
        IF intermediate.unique /\ intermediate.node # 0
        THEN /\ helperRet.node = intermediate.node
             /\ DOMAIN heap = DOMAIN helperLog.heap \cup {intermediate.node}
             /\ heap[helperRet.node].kind = WantedKind
             /\ ~heap[helperRet.node].metadata
        ELSE ~intermediate.unique =>
                 /\ helperRet.node \notin DOMAIN helperLog.heap \cup {0}
                 /\ helperRet.node # intermediate.node
                 /\ \A node \in DOMAIN helperLog.heap :
                        node \in DOMAIN heap /\ heap[node] = helperLog.heap[node]

\* a unique result with metadata was returned with its metadata cleared
C22_Witness ==
    /\ UniqueHelperDone
    /\ helperLog.interpreted
    /\ intermediate.unique
    /\ helperLog.result.metadata
    /\ helperRet.node = intermediate.node
    /\ ~heap[helperRet.node].metadata
    /\ DOMAIN heap = DOMAIN helperLog.heap \cup {intermediate.node}

\* C23: on every path of InterpretNodeIntoStringIDValueWithReference the
\* reference count of the returned ID is one more after the call than before
\* it and the count of every other ID is as before; a unique string node the
\* ID is taken from is freed
C23_OneReferenceToCaller ==
    (pc = "helper_done" /\ helperCall.fn = "StringIDValueWithReference") =>
        /\ pool = CreateStringReference(helperLog.pool, helperRet.sid)
        /\ (helperLog.interpreted /\ ~intermediate.immediate
            /\ intermediate.unique) => intermediate.node \notin DOMAIN heap

\* the ID was taken from a unique string node, which is freed, and the ID
\* has one reference more than before the call
C23_Witness ==
    /\ pc = "helper_done"
    /\ helperCall.fn = "StringIDValueWithReference"
    /\ helperLog.interpreted
    /\ intermediate.unique
    /\ helperLog.result.kind = "string"
    /\ intermediate.node \notin DOMAIN heap
    /\ helperRet.sid = helperLog.result.sid
    /\ pool[helperRet.sid] = helperLog.pool[helperRet.sid] + 1

\* InterpretNodeIntoStringIDValueIfExists has returned
IfExistsDone == pc = "helper_done" /\ helperCall.fn = "StringIDValueIfExists"

\* InterpretNodeIntoStringIDValueIfExists leaves every reference count as it
\* was before the call, and every node that existed before the call
IfExistsLeavesPool ==
    IfExistsDone => pool = helperLog.pool /\ heap = helperLog.heap

\* C24: InterpretNodeIntoStringIDValueIfExists leaves the reference count of
\* every ID as it was before the call, and returns NOT_A_STRING_ID unless the
\* ID it returns was interned before the call
C24_NoInternAndOnlyInternedIds ==
    IfExistsDone =>
        /\ pool = helperLog.pool
        /\ helperRet.sid # NOT_A_STRING_ID => helperLog.pool[helperRet.sid] > 0

\* the list nodes the caller of ExecuteNode supplied
SuppliedListNodes ==
    (IF input.call_stack.given THEN {"cs_arg"} ELSE {})
    \cup (IF input.interpreter_node_stack.given THEN {"ins_arg"} ELSE {})
    \cup (IF input.construction_stack.given THEN {"con_arg"} ELSE {})

\* C31: when ExecuteNode has returned, no opcode-stack or construction-stack
\* list node its caller supplied has been handed to FreeNode: it frees only
\* the stacks it allocated itself
C31_SuppliedStacksNotFreed ==
    pc = "done" => freed \cap SuppliedListNodes = {}

\* C31, amended: when ExecuteNode has returned, the opcode-stack and the
\* construction-stack list node have been handed to FreeNode, whether it
\* allocated them or its caller supplied them, and the call-stack list node
\* has not
C31_BothWorkStacksFreed ==
    pc = "done" => freed = {stackIds.ins, stackIds.con}

\* ExecuteNode has returned and has freed the opcode stack its caller
\* supplied
C31_Witness ==
    /\ pc = "done"
    /\ input.interpreter_node_stack.given
    /\ "ins_arg" \in freed
    /\ "cs_new" \notin freed

\* PopulatePerformanceCounters has returned a block for an entity, called by
\* an interpreter whose block constrains from an entity
PopulatedForEntity ==
    /\ pc = "populated"
    /\ requested.present
    /\ entities.given
    /\ perf.present /\ perf.entityToConstrainFrom

\* the lesser of a requested limit and what the parent has left, where a
\* child that requested none takes what the parent has left
LimitOfChild(constrained, own, remaining) ==
    IF constrained THEN Min(own, remaining) ELSE remaining

\* what is left of a maximum of which used is used
Allowance(max, used) == IF max > used THEN max - used ELSE 0

\* the entities the parent's entity contains outside of the child's entity
EntitiesOutsideChild ==
    IF entities.contained
    THEN entities.container_total_entities - entities.contained_total_entities
    ELSE 0

\* the levels of containment from the parent's entity to the child's
DepthOfChild == IF entities.contained THEN entities.cur_depth ELSE 0

\* C32: when the parent constrains the contained entities (respectively
\* their depth), the child's limit after PopulatePerformanceCounters is the
\* lesser of the limit the child requested, unlimited when it requested
\* none, and the parent's maximum less the entities outside of the child's
\* entity (respectively the levels down to the child's entity)
C32_EntityLimitsAreMinOfRequestedAndRemaining ==
    PopulatedForEntity =>
        /\ perf.constrainMaxContainedEntities =>
              /\ childPerf.constrainMaxContainedEntities
              /\ childPerf.maxContainedEntities =
                    LimitOfChild(requested.constrainMaxContainedEntities,
                                 requested.maxContainedEntities,
                                 Allowance(perf.maxContainedEntities,
                                           EntitiesOutsideChild))
        /\ perf.constrainMaxContainedEntityDepth =>
              /\ childPerf.constrainMaxContainedEntityDepth
              /\ childPerf.maxContainedEntityDepth =
                    LimitOfChild(requested.constrainMaxContainedEntityDepth,
                                 requested.maxContainedEntityDepth,
                                 Allowance(perf.maxContainedEntityDepth,
                                           DepthOfChild))

\* a child that requested a limit, of a parent whose entity contains fewer
\* entities than its maximum, gets the lesser of its request and the
\* parent's allowance
EntityLimitsOfRequestingChild ==
    PopulatedForEntity =>
        /\ (perf.constrainMaxContainedEntities
            /\ requested.constrainMaxContainedEntities
            /\ (entities.contained =>
                    entities.container_total_entities
                        < perf.maxContainedEntities)) =>
              childPerf.maxContainedEntities =
                    Min(requested.maxContainedEntities,
                        Allowance(perf.maxContainedEntities,
                                  EntitiesOutsideChild))
        /\ (perf.constrainMaxContainedEntityDepth
            /\ requested.constrainMaxContainedEntityDepth) =>
              childPerf.maxContainedEntityDepth =
                    Min(requested.maxContainedEntityDepth,
                        Allowance(perf.maxContainedEntityDepth, DepthOfChild))

\* a child that requested no limit of contained entities is limited to none
\* by a parent that allows some
UnrequestedEntityLimitIsZero ==
    (PopulatedForEntity /\ perf.constrainMaxContainedEntities
     /\ ~requested.constrainMaxContainedEntities) =>
        childPerf.constrainMaxContainedEntities
        /\ childPerf.maxContainedEntities = 0

\* parameter k of the six, counted from the offset
ParamOfBudget(k) == params[paramCall.perf_constraint_param_offset + k + 1]

\* whether parameter k of the six is evaluated
BudgetParamRead(k) ==
    /\ HasParam(params, paramCall.perf_constraint_param_offset + k)
    /\ k >= 3 => paramCall.include_entity_constraints

\* whether parameter k of the six is a number below 1
BelowOneGiven(k) ==
    /\ BudgetParamRead(k)
    /\ ~ParamOfBudget(k).nan
    /\ ParamOfBudget(k).tenths < 10

\* whether parameter k of the six is 0
ZeroGiven(k) ==
    /\ BudgetParamRead(k)
    /\ ParamOfBudget(k) = Double(0)

\* whether parameter k of the six gives rise to a constraint
ProducesConstraint(k) ==
    /\ BudgetParamRead(k)
    /\ ~ParamOfBudget(k).nan
    /\ ParamOfBudget(k).tenths >= (IF k \in {3, 4} THEN 0 ELSE 10)

\* C33: in PopulatePerformanceConstraintsFromParams a parameter below 1 for
\* execution steps, allocated nodes, opcode depth or entity id length gives
\* the limit 0, which is no limit; a parameter 0 for contained entities or
\* their depth gives a constraint with the limit 0; and the function returns
\* true exactly when the interpreter has a block or some parameter gave rise
\* to a constraint
C33_ZeroIsNoLimitButForEntities ==
    paramCall.state = "returned" =>
        /\ BelowOneGiven(0) => childPerf.maxNumExecutionSteps = 0
        /\ BelowOneGiven(1) => childPerf.maxNumAllocatedNodes = 0
        /\ BelowOneGiven(2) => childPerf.maxOpcodeExecutionDepth = 0
        /\ BelowOneGiven(5) => childPerf.maxEntityIdLength = 0
        /\ ZeroGiven(3) => /\ childPerf.constrainMaxContainedEntities
                           /\ childPerf.maxContainedEntities = 0
        /\ ZeroGiven(4) => /\ childPerf.constrainMaxContainedEntityDepth
                           /\ childPerf.maxContainedEntityDepth = 0
        /\ paramCall.any_constraints <=>
              (perf.present \/ \E k \in 0..5 : ProducesConstraint(k))

\* all six parameters are 0 and the interpreter has no block: only the two
\* entity limits are constrained, and the function returns true
C33_Witness ==
    /\ paramCall.state = "returned"
    /\ ~perf.present
    /\ \A k \in 0..5 : ZeroGiven(k)
    /\ childPerf.maxNumExecutionSteps = 0
    /\ childPerf.maxEntityIdLength = 0
    /\ childPerf.constrainMaxContainedEntities
    /\ childPerf.maxContainedEntityDepth = 0
    /\ paramCall.any_constraints

\* whether no element is twice in a sequence
NoDuplicates(seq) ==
    \A i, j \in 1..Len(seq) : seq[i] = seq[j] => i = j

\* the original RewriteByFunction is about to look up
ArrivedAt ==
    IF rwArg.tree = NullNode THEN NullOriginal(rwNulls + 1) ELSE rwArg.tree

\* a call for an original that has a record returns the new node of the
\* record and starts no activation
RevisitReturnsRecord ==
    (pc = "rw_call" /\ ArrivedAt \in DOMAIN originalToNew) =>
        /\ rwRet'.node = originalToNew[ArrivedAt]
        /\ rwFrames' = rwFrames
        /\ rwTrace' = rwTrace
        /\ pc' \in {"rw_return", "rw_done"}

\* no original is copied twice, and the function is applied to the copy of
\* no original twice
CopiedAndAppliedOnce ==
    /\ NoDuplicates(rwTrace.copied)
    /\ NoDuplicates(rwTrace.applied)

\* the rewrite has returned, and every original that was arrived at was
\* copied and had the function applied to its copy
RewriteDone ==
    /\ pc = "rw_done"
    /\ rwFrames = <<>>
    /\ Elements(rwTrace.copied) = DOMAIN originalToNew
    /\ Elements(rwTrace.applied) = DOMAIN originalToNew
    /\ rwInput.root \in DOMAIN originalToNew

\* C34: RewriteByFunction returns for every graph, with or without cycles,
\* when the user function returns; each original is copied once and has the
\* function applied to its copy once, and a further arrival at an original
\* returns the recorded new node without an activation of its own
C34_TerminatesWithEachOriginalOnce ==
    /\ []CopiedAndAppliedOnce
    /\ [][RevisitReturnsRecord]_vars
    /\ <>RewriteDone

\* the rewrite of a graph with a cycle has returned: the original that is
\* arrived at twice was copied once
C34_Witness ==
    /\ RewriteDone
    /\ rwInput.children[2] = <<1>>
    /\ rwTrace.copied = <<1, 2>>
    /\ rwTrace.applied = <<2, 1>>

\* the activation that rewrites the children of the node whose copy is the
\* new parent of the node now rewritten: the top one when a call is made or
\* has returned, the one below when the function is applied
ParentActivation ==
    IF pc = "rw_apply" THEN Len(rwFrames) - 1 ELSE Len(rwFrames)

\* C35: the construction stack holds, above the one context it held at the
\* call, one context for each activation of RewriteByFunction that is rewriting
\* children, and none for the activation that applies the function; at the
\* call for a child and at the application of the function to its copy the
\* top context has the child's new parent as target and the child's index as
\* current index; when RewriteByFunction returns the depth is as at the call
C35_ConstructionStackBalanced ==
    /\ pc \in {"rw_call", "rw_children", "rw_return"} =>
            Len(constructionStack) = Len(rwFrames) + 1
    /\ pc = "rw_apply" =>
            Len(constructionStack) = Len(rwFrames)
    /\ pc = "rw_done" => Len(constructionStack) = 1
    /\ (pc \in {"rw_call", "rw_apply"} /\ ParentActivation >= 1) =>
            LET parent == rwFrames[ParentActivation]
                top == constructionStack[Len(constructionStack)]
            IN  /\ top.target = parent.new_tree
                /\ top.index = parent.next - 1

\* the function is applied to the copy of a child that has children of its
\* own: the context of the child is popped and the top context is that of
\* its parent
C35_Witness ==
    /\ pc = "rw_apply"
    /\ Len(rwFrames) = 2
    /\ ChildrenOf(rwFrames[2].tree) # <<>>
    /\ Len(constructionStack) = 2
    /\ constructionStack[2].target = rwFrames[1].new_tree
    /\ constructionStack[2].index = 0

\* the frame of the call stack ConvertArgsToCallStack returned
ReturnedFrame == cvNodes[cvRet.node].children[1]

\* whether args refers to an associative array
ArgsIsAssoc ==
    cvArgs.node # 0 /\ IsAssociativeArray(cvArgs.nodes[cvArgs.node])

\* C36: ConvertArgsToCallStack returns a list node that holds one frame, an
\* associative array, with need_cycle_check set on the list and the frame;
\* the frame is a new empty associative array when args is null or no
\* associative array, and a new node with the children of args when args is
\* an associative array that is not unique; a node of a reference that is
\* not unique is not the frame and is as it was before the call
C36_OneFrameNeverShared ==
    pc = "converted" =>
        /\ cvRet.node \in DOMAIN cvNodes
        /\ cvRet.node \notin DOMAIN cvArgs.nodes
        /\ cvNodes[cvRet.node].kind = "list"
        /\ Len(cvNodes[cvRet.node].children) = 1
        /\ cvNodes[cvRet.node].need_cycle_check
        /\ ReturnedFrame \in DOMAIN cvNodes
        /\ IsAssociativeArray(cvNodes[ReturnedFrame])
        /\ cvNodes[ReturnedFrame].need_cycle_check
        /\ ~ArgsIsAssoc =>
              /\ ReturnedFrame \notin DOMAIN cvArgs.nodes
              /\ cvNodes[ReturnedFrame].children = <<>>
        /\ (ArgsIsAssoc /\ ~cvArgs.unique) =>
              /\ ReturnedFrame \notin DOMAIN cvArgs.nodes
              /\ cvNodes[ReturnedFrame].children =
                    cvArgs.nodes[cvArgs.node].children
        /\ (cvArgs.node # 0 /\ ~(ArgsIsAssoc /\ cvArgs.unique)) =>
              /\ ReturnedFrame # cvArgs.node
              /\ cvNodes[cvArgs.node] = cvArgs.nodes[cvArgs.node]

\* args was an associative array with two children and without the flag,
\* referred to by a reference that is not unique: the frame is a copy with
\* the flag, and args has no flag
C36_Witness ==
    /\ pc = "converted"
    /\ ArgsIsAssoc
    /\ ~cvArgs.unique
    /\ DOMAIN cvArgs.nodes[cvArgs.node].children = {"a", "b"}
    /\ ReturnedFrame # cvArgs.node
    /\ cvNodes[ReturnedFrame].need_cycle_check
    /\ ~cvNodes[cvArgs.node].need_cycle_check


\* the entity that contains entity e among the loaded ones (0: none)
LoadedContainerOf(e) ==
    IF \E c \in DOMAIN containedOf :
            \E i \in 1..Len(containedOf[c]) : containedOf[c][i] = e
    THEN CHOOSE c \in DOMAIN containedOf :
            \E i \in 1..Len(containedOf[c]) : containedOf[c][i] = e
    ELSE 0

\* default_random_seed of the call that loaded entity e: the caller's for
\* the outermost, a stream of the container's random state for the others
SeedPassedIn(e) ==
    IF LoadedContainerOf(e) = 0 THEN CallerRandomSeed
    ELSE CreateRandomStreamFromStringAndRand(
            randomState[LoadedContainerOf(e)], EntityName(e))

\* each entity that is returned whose metadata file was not read, or was
\* read and holds no seed, has the random state of the seed passed in
DefaultSeedKept ==
    \A e \in liveEntities :
        (\/ files.file_type = FILE_EXTENSION_COMPRESSED_AMALGAM_CODE
         \/ files.metadata[e] # "with_seed")
            => randomState[e] = SeedPassedIn(e)

\* C37: LoadEntityFromResourcePath returns a non-null entity exactly when
\* the caller's status is loaded on return; a metadata file that is missing
\* or not readable does not make the load fail when the code is read and no
\* contained entity fails, and the entity is left with the default random
\* seed that was passed in.
C37_EntityExactlyWhenLoaded ==
    pc = "load_done" =>
        /\ loadRet # 0 <=> loadStatus.loaded
        /\ (/\ files.loads[1]
            /\ ~MetadataLoaded(files.metadata[1])
            /\ ~VersionOrContainedEntityFails)
                => /\ loadRet = 1
                   /\ loadStatus.loaded
                   /\ randomState[1] = CallerRandomSeed
        /\ DefaultSeedKept

\* an entity and the entity it contains are loaded without metadata, and
\* the contained entity has the stream made of its container's seed
C37_Witness ==
    /\ pc = "load_done"
    /\ files.file_type = FILE_EXTENSION_AMALGAM
    /\ files.children[1] = <<2>>
    /\ ~MetadataLoaded(files.metadata[1])
    /\ ~MetadataLoaded(files.metadata[2])
    /\ loadRet = 1
    /\ loadStatus.loaded
    /\ liveEntities = {1, 2}
    /\ randomState[1] = CallerRandomSeed
    /\ randomState[2] = <<"default_random_seed", "/", "2">>


\* C38: for every call stack, one with zero frames included, the index that
\* GetCallStackSymbolLocation and GetOrCreateCallStackSymbolLocation report
\* is less than the number of frames, and GetOrCreateCallStackSymbolLocation
\* reads no frame outside the call stack: size - 1 does not wrap around.
C38_ReportedIndexIsAFrame ==
    lastLookup.op # "none" =>
        /\ lastLookup.index < Len(lastLookup.before)
        /\ ~lastLookup.outside

\* on a call stack that holds a frame the reported index is a frame of it
\* and no frame outside it is read
IndexIsAFrameOfNonEmptyStack ==
    (lastLookup.op # "none" /\ lastLookup.before # <<>>) =>
        /\ lastLookup.index < Len(lastLookup.before)
        /\ ~lastLookup.outside


\* the function returns true in this step
ReturnsTrue == concReturn # "true" /\ concReturn' = "true"

\* a task is taken by a thread of the pool and has not stored its result
TaskIsRunning(i) == i \in 1..Len(tasks) /\ tasks[i].state = "running"

\* once the function has returned true no task is queued or running
NoTaskLeftAtReturn ==
    concReturn = "true" =>
        /\ Len(tasks) = Len(concArgs.nodes)
        /\ \A i \in 1..Len(tasks) : tasks[i].state = "done"
        /\ ~enqueueLock

\* the step that returns true is taken in EndConcurrency with every task
\* complete; the lock is released with the last task enqueued and no task
\* runs before that; no entry is written once true is returned
OrderOfEnqueueUnlockAndWait ==
    /\ ReturnsTrue =>
            /\ pc = "end_concurrency"
            /\ ~enqueueLock
            /\ \A i \in 1..Len(concArgs.nodes) :
                    i <= Len(tasks) /\ tasks[i].state = "done"
    /\ (enqueueLock /\ ~enqueueLock') => Len(tasks) = Len(concArgs.nodes)
    /\ enqueueLock => \A i \in 1..Len(tasks) : tasks[i].state = "queued"
    /\ concReturn = "true" => interpretedNodes' = interpretedNodes

\* C39: InterpretEvaluableNodesConcurrently returns true only after every
\* task it enqueued has finished: the batch-enqueue lock is released after
\* the last task is enqueued, the function then waits in EndConcurrency, and
\* no worker writes an entry of interpreted_nodes after the return.
C39_ReturnsAfterEveryTask ==
    /\ []NoTaskLeftAtReturn
    /\ [][OrderOfEnqueueUnlockAndWait]_vars

\* true is returned after three tasks that completed in the order 2, 3, 1
C39_Witness ==
    /\ concReturn = "true"
    /\ pc = "returned"
    /\ Len(tasks) = 3
    /\ concLog.completed = <<2, 3, 1>>
    /\ ~enqueueLock

====
